---- MODULE Spec2Model ----
(***************************************************************************)
(* grafana-provisioner: the provisioning workflow of package grafana       *)
(* (RunProvisioning and its helpers) and the API client (doRequest and the *)
(* calls built on it), run against a model of the Grafana HTTP API.        *)
(***************************************************************************)
EXTENDS Integers, Sequences, FiniteSets, TLC

VARIABLES
    cfg,        \* the Config value handed to RunProvisioning
    grafana,    \* the remote server: data sources, folders, dashboards
    run,        \* the running RunProvisioning call: position and locals
    hist,       \* history of the run: requests sent, answers seen
    peer        \* a second instance of the provisioner while it is not the
                \* one taking steps: its run and its history

vars == <<cfg, grafana, run, hist, peer>>

----------------------------------------------------------------------------
(* Bounds of the model *)

MaxRetries == 2     \* largest configured grafana.retries
MaxExternal == 1    \* writes to the server by somebody else than this run
MaxDataSources == 2 \* longest cfg.DataSources
MaxFolders == 1     \* longest cfg.Folders
MaxDashboards == 1  \* longest cfg.Dashboards
MaxListing == 3     \* longest data-source listing drawn for provisionDataSource

(* Program constants *)

StatusOK == 200
StatusMultipleChoices == 300
StatusConflict == 409

DSType == "grafana-postgresql-datasource"
DSURL == "metrics-postgres:5432"
General == "General"
ProvenanceMessage == "Automated provisioning by grafana-provisioner"

(* Values of the server model that the client only passes through *)

TransportFailure == 0 - 1   \* HttpClient.Do returned an error, no status
EmptyBody == [empty |-> TRUE]   \* what a drained *bytes.Buffer sends
NoBody == [nil |-> TRUE]        \* the nil body of a GET

----------------------------------------------------------------------------
(* Small helpers *)

Range(s) == {s[k] : k \in 1..Len(s)}

SeqsUpTo(S, n) == UNION {[1..k -> S] : k \in 0..n}

\* strings.EqualFold on the folder names of the model
Lower(s) == IF s = "General" THEN "general" ELSE IF s = "Logs" THEN "logs" ELSE s

EqualFold(a, b) == Lower(a) = Lower(b)

\* the UID the server gives to the object with numeric id n
UidOf(n) == "uid" \o ToString(n)

----------------------------------------------------------------------------
(* The Grafana server, as the external interfaces describe it.  A record of
   the server carries the field names of the JSON payloads. *)

EmptyGrafana == [dataSources |-> <<>>, folders |-> <<>>, dashboards |-> <<>>, nextId |-> 1]

\* json: whether the response body parses into the shape the client expects
Answer(status, resp, g) == [status |-> status, json |-> TRUE, resp |-> resp, g |-> g]

\* GET /api/datasources
SrvListDataSources(g) == Answer(StatusOK, g.dataSources, g)

\* POST /api/datasources: names are unique on the server
SrvCreateDataSource(g, body) ==
    IF body = EmptyBody
    THEN Answer(400, "bad request data", g)
    ELSE IF \E d \in Range(g.dataSources) : d.name = body.name
    THEN Answer(StatusConflict, "data source with the same name already exists", g)
    ELSE LET rec == [id |-> g.nextId, uid |-> UidOf(g.nextId), name |-> body.name,
                     type |-> body.type, url |-> body.url, database |-> body.database]
         IN  Answer(StatusOK,
                    [datasource |-> [id |-> rec.id, uid |-> rec.uid, name |-> rec.name]],
                    [g EXCEPT !.dataSources = Append(@, rec), !.nextId = @ + 1])

\* GET /api/datasources/name/:name
SrvGetDataSource(g, name) ==
    IF \E d \in Range(g.dataSources) : d.name = name
    THEN Answer(StatusOK, CHOOSE d \in Range(g.dataSources) : d.name = name, g)
    ELSE Answer(404, "data source not found", g)

\* GET /api/folders
SrvListFolders(g) == Answer(StatusOK, g.folders, g)

\* POST /api/folders: 409 on title collision
SrvCreateFolder(g, body) ==
    IF body = EmptyBody
    THEN Answer(400, "bad request data", g)
    ELSE IF \E f \in Range(g.folders) : f.title = body.title
    THEN Answer(StatusConflict, "a folder with that name already exists", g)
    ELSE LET rec == [id |-> g.nextId, uid |-> UidOf(g.nextId), title |-> body.title]
         IN  Answer(StatusOK, rec,
                    [g EXCEPT !.folders = Append(@, rec), !.nextId = @ + 1])

\* DELETE of a folder: the folders of the title are gone
SrvDeleteFolder(g, body) ==
    IF body = EmptyBody
    THEN Answer(400, "bad request data", g)
    ELSE LET Other(f) == f.title # body.title
         IN  Answer(StatusOK, [id |-> 0, uid |-> "", title |-> body.title],
                    [g EXCEPT !.folders = SelectSeq(@, Other)])

\* the title of the folder a dashboard lives in; empty for the default folder
FolderTitleOf(g, folderUid) ==
    IF \E f \in Range(g.folders) : f.uid = folderUid
    THEN (CHOOSE f \in Range(g.folders) : f.uid = folderUid).title
    ELSE ""

\* GET /api/search: folders and dashboards in one index
SrvSearch(g) ==
    Answer(StatusOK,
           [k \in 1..Len(g.folders) |->
               [id |-> g.folders[k].id, uid |-> g.folders[k].uid,
                title |-> g.folders[k].title, type |-> "dash-folder",
                folderTitle |-> ""]]
           \o
           [k \in 1..Len(g.dashboards) |->
               [id |-> g.dashboards[k].id, uid |-> g.dashboards[k].uid,
                title |-> g.dashboards[k].title, type |-> "dash-db",
                folderTitle |-> FolderTitleOf(g, g.dashboards[k].folderUid)]],
           g)

\* the dashboard an import replaces: the one with the document's uid, else
\* the one with the same title in the target folder; 0 if there is none
ImportTarget(g, body) ==
    LET byUid == {k \in 1..Len(g.dashboards) :
                     body.dashboard.uid # "" /\ g.dashboards[k].uid = body.dashboard.uid}
        byTitle == {k \in 1..Len(g.dashboards) :
                     /\ g.dashboards[k].title = body.dashboard.title
                     /\ g.dashboards[k].folderUid = body.folderUid}
    IN  IF byUid # {} THEN CHOOSE k \in byUid : TRUE
        ELSE IF byTitle # {} THEN CHOOSE k \in byTitle : \A j \in byTitle : k <= j
        ELSE 0

\* POST /api/dashboards/import
SrvImportDashboard(g, body) ==
    IF body = EmptyBody
    THEN Answer(400, "bad request data", g)
    ELSE IF body.folderUid # "" /\ ~ \E f \in Range(g.folders) : f.uid = body.folderUid
    THEN Answer(400, "folder not found", g)
    ELSE LET k == ImportTarget(g, body) IN
         IF k = 0
         THEN LET rec == [id |-> g.nextId,
                          uid |-> IF body.dashboard.uid # "" THEN body.dashboard.uid
                                  ELSE UidOf(g.nextId),
                          title |-> body.dashboard.title,
                          folderUid |-> body.folderUid,
                          inputs |-> body.inputs]
              IN  Answer(StatusOK, "imported",
                         [g EXCEPT !.dashboards = Append(@, rec), !.nextId = @ + 1])
         ELSE IF ~ body.overwrite
         THEN Answer(412, "a dashboard with the same name already exists", g)
         ELSE Answer(StatusOK, "imported",
                     [g EXCEPT !.dashboards[k] =
                         [@ EXCEPT !.title = body.dashboard.title,
                                   !.folderUid = body.folderUid,
                                   !.inputs = body.inputs]])

----------------------------------------------------------------------------
(* The dashboard definition files on disk.  A document is the parsed JSON:
   title, id, uid and the __inputs list (hasInputs: the key is present).  An
   entry of the list is an object with or without a string name and with or
   without a value, or something that is no object at all. *)

InputEntry(name, value) ==
    [object |-> TRUE, hasName |-> TRUE, name |-> name, hasValue |-> TRUE, value |-> value]

DashboardFile ==
    [title |-> "exported", id |-> 7, uid |-> "file-uid", hasInputs |-> TRUE,
     inputs |-> <<InputEntry("DS_A", "old"), InputEntry("DS_B", "keep")>>]

\* entries processInputs skips: no object at all, an object without a string
\* name; and an entry that has a name but no value
NotAnObject ==
    [object |-> FALSE, hasName |-> FALSE, name |-> "", hasValue |-> FALSE, value |-> ""]

Unnamed(value) ==
    [object |-> TRUE, hasName |-> FALSE, name |-> "", hasValue |-> TRUE, value |-> value]

NoValue(name) ==
    [object |-> TRUE, hasName |-> TRUE, name |-> name, hasValue |-> FALSE, value |-> ""]

MixedFile ==
    [title |-> "mixed", id |-> 9, uid |-> "mixed-uid", hasInputs |-> TRUE,
     inputs |-> <<NotAnObject, Unnamed("u"), InputEntry("DS_A", "old"),
                  InputEntry("DS_B", "keep"), NoValue("DS_C")>>]

\* a document without the key __inputs
PlainFile ==
    [title |-> "plain", id |-> 11, uid |-> "plain-uid", hasInputs |-> FALSE, inputs |-> <<>>]

Files == {"dash.json", "mixed.json", "plain.json"}

\* os.ReadFile followed by json.Unmarshal
ReadDashboardFile(file) ==
    IF file = "dash.json" THEN [ok |-> TRUE, doc |-> DashboardFile]
    ELSE IF file = "mixed.json" THEN [ok |-> TRUE, doc |-> MixedFile]
    ELSE IF file = "plain.json" THEN [ok |-> TRUE, doc |-> PlainFile]
    ELSE [ok |-> FALSE, doc |-> DashboardFile]

----------------------------------------------------------------------------
(* The running call.  pc is the request RunProvisioning is waiting on (the
   name of the client method), or Start, Done, Failed. *)

NoError == [stage |-> "", cause |-> ""]

EmptyMapping == [t \in {} |-> [ID |-> 0, UID |-> "", Title |-> ""]]

InitRun ==
    [pc |-> "Start", Retries |-> 0, i |-> 0, lastErr |-> 0, body |-> NoBody,
     drained |-> FALSE, err |-> NoError,
     existingSources |-> <<>>, sourceResponses |-> <<>>, dsIdx |-> 0,
     FoldersMapping |-> EmptyMapping, fIdx |-> 0,
     dIdx |-> 0, dashboardFolderUID |-> "", dsUID |-> ""]

Stages == <<"AwaitReady", "DataSources", "Folders", "Dashboards">>

\* a request about to be handed to doRequest (or to HttpClient.Do)
NewRequest(r, op, body) ==
    [r EXCEPT !.pc = op, !.body = body, !.i = 0, !.lastErr = 0, !.drained = FALSE]

\* RunProvisioning returns the wrapped error of a stage
Failed(r, stage, cause) ==
    [r EXCEPT !.pc = "Failed", !.err = [stage |-> stage, cause |-> cause],
              !.body = NoBody, !.i = 0, !.lastErr = 0, !.drained = FALSE]

\* RunProvisioning returns nil
Done(r) ==
    [r EXCEPT !.pc = "Done", !.body = NoBody, !.i = 0, !.lastErr = 0, !.drained = FALSE]

\* strings.Contains(err.Error(), "Status 409") on the error of doRequest, whose
\* text names the status of the last attempt
ContainsStatus409(lastErr) == lastErr = StatusConflict

----------------------------------------------------------------------------
(* Stage 4: dashboards *)

AfterProvisionDashboards(r, ok, cause) ==
    IF ok THEN Done(r) ELSE Failed(r, "Dashboards", cause)

\* mutant: the folder is compared with "General" letter by letter
getDashboardFolderUIDExactCase(FoldersMapping, dashboardConfig) ==
    LET requiredFolder == dashboardConfig.Folder IN
    IF requiredFolder = General
    THEN IF General \in DOMAIN FoldersMapping
         THEN [ok |-> TRUE, uid |-> FoldersMapping[General].UID]
         ELSE [ok |-> TRUE, uid |-> ""]
    ELSE IF requiredFolder \notin DOMAIN FoldersMapping
         THEN [ok |-> FALSE, uid |-> ""]
         ELSE [ok |-> TRUE, uid |-> FoldersMapping[requiredFolder].UID]

\* mutant: a folder missing from the mapping falls back to the default folder
getDashboardFolderUIDOrDefault(FoldersMapping, dashboardConfig) ==
    LET requiredFolder == dashboardConfig.Folder IN
    IF General \in DOMAIN FoldersMapping /\ EqualFold(requiredFolder, General)
    THEN [ok |-> TRUE, uid |-> FoldersMapping[General].UID]
    ELSE IF requiredFolder \notin DOMAIN FoldersMapping
         THEN [ok |-> TRUE, uid |-> ""]
         ELSE [ok |-> TRUE, uid |-> FoldersMapping[requiredFolder].UID]

getDashboardFolderUID(FoldersMapping, dashboardConfig) ==
    LET requiredFolder == dashboardConfig.Folder IN
    IF EqualFold(requiredFolder, General)
    THEN IF General \in DOMAIN FoldersMapping
         THEN [ok |-> TRUE, uid |-> FoldersMapping[General].UID]
         ELSE [ok |-> TRUE, uid |-> ""]
    ELSE IF requiredFolder \notin DOMAIN FoldersMapping
         THEN [ok |-> FALSE, uid |-> ""]
         ELSE [ok |-> TRUE, uid |-> FoldersMapping[requiredFolder].UID]

\* the loop of provisionDashboards, entered at dashboard k
DashboardsFrom(r, k) ==
    IF k > Len(cfg.Dashboards)
    THEN AfterProvisionDashboards(r, TRUE, "")
    ELSE LET dashboardConfig == cfg.Dashboards[k]
             folder == getDashboardFolderUID(r.FoldersMapping, dashboardConfig)
         IN  IF ~ folder.ok
             THEN AfterProvisionDashboards(r, FALSE,
                     "dashboard folder validation failed: " \o dashboardConfig.Folder)
             ELSE NewRequest([r EXCEPT !.dIdx = k, !.dashboardFolderUID = folder.uid,
                                       !.dsUID = ""],
                             "GetDataSource", NoBody)

provisionDashboards(r) ==
    IF Len(cfg.Dashboards) = 0
    THEN AfterProvisionDashboards(r, TRUE, "")
    ELSE DashboardsFrom(r, 1)

\* json.Unmarshal of the search response into []DashboardSearchResponse
ParseSearch(resp) ==
    [k \in 1..Len(resp) |->
        [ID |-> resp[k].id, UID |-> resp[k].uid, Title |-> resp[k].title,
         Type |-> resp[k].type, FolderTitle |-> resp[k].folderTitle]]

ZeroDashboardSearchResponse ==
    [ID |-> 0, UID |-> "", Title |-> "", Type |-> "", FolderTitle |-> ""]

\* mutant: the folder of the entry is not looked at
DashboardMatchesByTitle(result, name, folder) ==
    /\ result.Type = "dash-db"
    /\ result.Title = name

DashboardMatches(result, name, folder) ==
    /\ result.Type = "dash-db"
    /\ result.Title = name
    /\ LET isGeneralFolder == /\ EqualFold(folder, General)
                              /\ (result.FolderTitle = "" \/ EqualFold(result.FolderTitle, General))
           isSpecificFolder == result.FolderTitle = folder
       IN  isSpecificFolder \/ isGeneralFolder

\* the loop of FindFirstDashboardByFolderAndName over the search results
FindFirstDashboardByFolderAndName(searchResults, name, folder) ==
    LET hits == {k \in 1..Len(searchResults) : DashboardMatches(searchResults[k], name, folder)}
    IN  IF hits = {} THEN ZeroDashboardSearchResponse
        ELSE searchResults[CHOOSE k \in hits : \A j \in hits : k <= j]

\* mutant: an entry no value is provided for loses the value it has
ProcessInputClearsDefault(input, inputValues) ==
    IF ~ input.object \/ ~ input.hasName
    THEN [kept |-> FALSE, entry |-> input]
    ELSE IF input.name \in DOMAIN inputValues
    THEN [kept |-> TRUE,
          entry |-> [input EXCEPT !.hasValue = TRUE, !.value = inputValues[input.name]]]
    ELSE [kept |-> TRUE, entry |-> [input EXCEPT !.hasValue = TRUE, !.value = ""]]

\* mutant: every entry is kept, an object with a name or not
ProcessInputKeepsMalformed(input, inputValues) ==
    IF input.hasName /\ input.name \in DOMAIN inputValues
    THEN [kept |-> TRUE,
          entry |-> [input EXCEPT !.hasValue = TRUE, !.value = inputValues[input.name]]]
    ELSE [kept |-> TRUE, entry |-> input]

\* one entry of processInputs: skipped (kept = FALSE) or with its value set
ProcessInput(input, inputValues) ==
    IF ~ input.object \/ ~ input.hasName
    THEN [kept |-> FALSE, entry |-> input]
    ELSE IF input.name \in DOMAIN inputValues
    THEN [kept |-> TRUE,
          entry |-> [input EXCEPT !.hasValue = TRUE, !.value = inputValues[input.name]]]
    ELSE [kept |-> TRUE, entry |-> input]

RECURSIVE processInputs(_, _)
processInputs(inputs, inputValues) ==
    IF inputs = <<>> THEN <<>>
    ELSE LET p == ProcessInput(Head(inputs), inputValues)
         IN  (IF p.kept THEN <<p.entry>> ELSE <<>>) \o processInputs(Tail(inputs), inputValues)

\* mutant: overwrite is asked for only when a dashboard was found
ImportRequestOverwriteIfFound(dashboardConfig, doc, existingDashboard, dsUID, folderUID) ==
    LET inputValues == [n \in {dashboardConfig.ImportVar} |-> dsUID]
        rawInputs == [k \in 1..Len(doc.inputs) |-> ProcessInput(doc.inputs[k], inputValues).entry]
    IN  [dashboard |-> [title |-> dashboardConfig.Name,
                        id |-> existingDashboard.ID,
                        uid |-> existingDashboard.UID,
                        hasInputs |-> doc.hasInputs,
                        inputs |-> rawInputs],
         inputs |-> IF doc.hasInputs THEN processInputs(doc.inputs, inputValues) ELSE <<>>,
         folderUid |-> IF EqualFold(dashboardConfig.Folder, General) THEN "" ELSE folderUID,
         overwrite |-> existingDashboard.UID # "",
         message |-> ProvenanceMessage]

\* mutant: the document keeps the id and uid of the file when no dashboard is
\* found
ImportRequestOfFile(dashboardConfig, doc, existingDashboard, dsUID, folderUID) ==
    LET inputValues == [n \in {dashboardConfig.ImportVar} |-> dsUID]
        rawInputs == [k \in 1..Len(doc.inputs) |-> ProcessInput(doc.inputs[k], inputValues).entry]
        found == existingDashboard.UID # ""
    IN  [dashboard |-> [title |-> dashboardConfig.Name,
                        id |-> IF found THEN existingDashboard.ID ELSE doc.id,
                        uid |-> IF found THEN existingDashboard.UID ELSE doc.uid,
                        hasInputs |-> doc.hasInputs,
                        inputs |-> rawInputs],
         inputs |-> IF doc.hasInputs THEN processInputs(doc.inputs, inputValues) ELSE <<>>,
         folderUid |-> IF EqualFold(dashboardConfig.Folder, General) THEN "" ELSE folderUID,
         overwrite |-> TRUE,
         message |-> ProvenanceMessage]

\* the import request provisionDashboard builds from the file's document and
\* the dashboard found on the server
ImportRequest(dashboardConfig, doc, existingDashboard, dsUID, folderUID) ==
    LET inputValues == [n \in {dashboardConfig.ImportVar} |-> dsUID]
        \* the entries are maps shared with the document: setting a value
        \* in processInputs sets it in rawDashboard["__inputs"] too
        rawInputs == [k \in 1..Len(doc.inputs) |-> ProcessInput(doc.inputs[k], inputValues).entry]
    IN  [dashboard |-> [title |-> dashboardConfig.Name,
                        id |-> existingDashboard.ID,
                        uid |-> existingDashboard.UID,
                        hasInputs |-> doc.hasInputs,
                        inputs |-> rawInputs],
         inputs |-> IF doc.hasInputs THEN processInputs(doc.inputs, inputValues) ELSE <<>>,
         folderUid |-> IF EqualFold(dashboardConfig.Folder, General) THEN "" ELSE folderUID,
         overwrite |-> TRUE,
         message |-> ProvenanceMessage]

\* the error of provisionDashboards for a failed client.GetDataSource
DataSourceNotFound(dashboardConfig) ==
    "dashboard dataSource '" \o dashboardConfig.DataSource
        \o "' not found for dashboard '" \o dashboardConfig.Name \o "'"

\* mutant: a failed lookup leaves the UID empty and the dashboard is imported
AfterGetDataSourceOrEmpty(r, ok, dataSource, cause) ==
    LET file == ReadDashboardFile(cfg.Dashboards[r.dIdx].File) IN
    IF ~ file.ok
    THEN AfterProvisionDashboards(r, FALSE, "failed to read dashboard file")
    ELSE NewRequest([r EXCEPT !.dsUID = IF ok THEN dataSource.UID ELSE ""],
                    "SearchDashboards", NoBody)

\* mutant: the UID is the one the DataSources stage has for the name
AfterGetDataSourceFromResults(r, ok, dataSource, cause) ==
    IF ~ ok
    THEN AfterProvisionDashboards(r, FALSE, cause)
    ELSE LET file == ReadDashboardFile(cfg.Dashboards[r.dIdx].File)
             named == {k \in 1..Len(cfg.DataSources) :
                          cfg.DataSources[k].Name = cfg.Dashboards[r.dIdx].DataSource}
         IN  IF ~ file.ok
             THEN AfterProvisionDashboards(r, FALSE, "failed to read dashboard file")
             ELSE NewRequest([r EXCEPT !.dsUID =
                                 IF named # {} /\ Len(r.sourceResponses) = Len(cfg.DataSources)
                                 THEN r.sourceResponses[CHOOSE k \in named : TRUE].UID
                                 ELSE dataSource.UID],
                             "SearchDashboards", NoBody)

\* provisionDashboards after client.GetDataSource returned
AfterGetDataSource(r, ok, dataSource, cause) ==
    IF ~ ok
    THEN AfterProvisionDashboards(r, FALSE, cause)
    ELSE LET file == ReadDashboardFile(cfg.Dashboards[r.dIdx].File) IN
         IF ~ file.ok
         THEN AfterProvisionDashboards(r, FALSE, "failed to read dashboard file")
         ELSE NewRequest([r EXCEPT !.dsUID = dataSource.UID], "SearchDashboards", NoBody)

\* provisionDashboard after FindFirstDashboardByFolderAndName's search returned
AfterSearchDashboards(r, ok, searchResults, cause) ==
    IF ~ ok
    THEN AfterProvisionDashboards(r, FALSE, cause)
    ELSE LET dashboardConfig == cfg.Dashboards[r.dIdx]
             existingDashboard == FindFirstDashboardByFolderAndName(
                                     searchResults, dashboardConfig.Name, dashboardConfig.Folder)
         IN  NewRequest(r, "ImportDashboard",
                        ImportRequest(dashboardConfig,
                                      ReadDashboardFile(dashboardConfig.File).doc,
                                      existingDashboard, r.dsUID, r.dashboardFolderUID))

\* mutant: a dashboard that fails is skipped
AfterImportDashboardSkipFailed(r, ok, cause) == DashboardsFrom(r, r.dIdx + 1)

\* provisionDashboards after provisionDashboard returned
AfterImportDashboard(r, ok, cause) ==
    IF ~ ok
    THEN AfterProvisionDashboards(r, FALSE, cause)
    ELSE DashboardsFrom(r, r.dIdx + 1)

----------------------------------------------------------------------------
(* Stage 3: folders *)

AfterProvisionFolders(r, ok, cause) ==
    IF ok THEN provisionDashboards(r) ELSE Failed(r, "Folders", cause)

\* the loop of provisionFolders, entered at folder k
FoldersFrom(r, k) ==
    IF k > Len(cfg.Folders)
    THEN AfterProvisionFolders(r, TRUE, "")
    ELSE NewRequest([r EXCEPT !.fIdx = k], "GetFolders", NoBody)

provisionFolders(r) ==
    LET fresh == [r EXCEPT !.FoldersMapping = EmptyMapping] IN
    IF Len(cfg.Folders) = 0
    THEN AfterProvisionFolders(fresh, TRUE, "")
    ELSE FoldersFrom(fresh, 1)

\* json.Unmarshal into FolderResponse
ParseFolder(f) == [ID |-> f.id, UID |-> f.uid, Title |-> f.title]

\* mutant: the mapping is made anew for every folder
MapFolderAnew(r, resp) ==
    FoldersFrom([r EXCEPT !.FoldersMapping =
                    [t \in {resp.Title} |->
                        [ID |-> resp.ID, UID |-> resp.UID, Title |-> resp.Title]]],
                r.fIdx + 1)

\* provisionFolders after CreateFolderIfNotExists returned resp: the mapping
\* is keyed by the title of the response
MapFolder(r, resp) ==
    LET m == r.FoldersMapping IN
    FoldersFrom([r EXCEPT !.FoldersMapping =
                    [t \in DOMAIN m \cup {resp.Title} |->
                        IF t = resp.Title
                        THEN [ID |-> resp.ID, UID |-> resp.UID, Title |-> resp.Title]
                        ELSE m[t]]],
                r.fIdx + 1)

FolderError(r, cause) ==
    AfterProvisionFolders(r, FALSE, "failed to provision folder: " \o cause)

\* mutant: the titles are compared without regard to letter case
TitleMatchesFold(folder, title) == EqualFold(folder.title, title)

\* the comparison of a listed folder with the configured name
TitleMatches(folder, title) == folder.title = title

\* CreateFolderIfNotExists after the folder listing returned: reuse the
\* folder with exactly the configured title, or go on to create it
AfterGetFolders(r, ok, existingFolders, cause) ==
    IF ~ ok
    THEN FolderError(r, cause)
    ELSE LET title == cfg.Folders[r.fIdx].Name
             hits == {k \in 1..Len(existingFolders) : TitleMatches(existingFolders[k], title)}
         IN  IF hits # {}
             THEN MapFolder(r, ParseFolder(existingFolders[CHOOSE k \in hits : \A j \in hits : k <= j]))
             ELSE NewRequest(r, "CreateFolder", [title |-> title])

\* mutant: a 409 of the folder creation is taken for success, as it is for a
\* data source
AfterCreateFolderConflictIsSuccess(r, ok, resp, lastErr) ==
    IF ~ ok /\ ContainsStatus409(lastErr)
    THEN MapFolder(r, [ID |-> 0, UID |-> "", Title |-> r.body.title])
    ELSE IF ~ ok
    THEN FolderError(r, "folder creation failed")
    ELSE MapFolder(r, ParseFolder(resp))

\* CreateFolder after doRequest returned: every error of the request is an
\* error of CreateFolder, a 409 only gets its own text
AfterCreateFolder(r, ok, resp, lastErr) ==
    IF ~ ok
    THEN IF ContainsStatus409(lastErr)
         THEN FolderError(r, "folder creation failed (409 Conflict)")
         ELSE FolderError(r, "folder creation failed")
    ELSE MapFolder(r, ParseFolder(resp))

----------------------------------------------------------------------------
(* Stage 2: data sources *)

\* mutant: the error of provisionDataSources is dropped
AfterProvisionDataSourcesAnyway(r, ok, cause) == provisionFolders(r)

AfterProvisionDataSources(r, ok, cause) ==
    IF ok THEN provisionFolders(r) ELSE Failed(r, "DataSources", cause)

\* json.Unmarshal of the listing and the copy into []DataSource
ParseDataSources(resp) ==
    [k \in 1..Len(resp) |->
        [ID |-> resp[k].id, UID |-> resp[k].uid, Name |-> resp[k].name,
         Type |-> resp[k].type, URL |-> resp[k].url, Database |-> resp[k].database]]

\* mutant: the database is left out of the comparison
SameConnectionNoDatabase(source, dataSource) ==
    /\ source.Type = dataSource.Type
    /\ source.URL = dataSource.URL

\* the comparison of provisionDataSource's first loop
SameConnection(source, dataSource) ==
    /\ source.Type = dataSource.Type
    /\ source.URL = dataSource.URL
    /\ source.Database = dataSource.Database

\* the first record of the listing with the desired connection, 0 if none
RECURSIVE FindConnection(_, _, _)
FindConnection(existingSources, dataSource, k) ==
    IF k > Len(existingSources) THEN 0
    ELSE IF SameConnection(existingSources[k], dataSource) THEN k
    ELSE FindConnection(existingSources, dataSource, k + 1)

\* mutant: the counter is appended from the first iteration on
CurrentNameAlwaysSuffixed(baseName, i) == baseName \o "_" \o ToString(i + 1)

\* mutant: the counter is not counted up in the name
CurrentNameSuffixedOnce(baseName, i) ==
    IF i > 0 THEN baseName \o "_1" ELSE baseName

\* currentName of iteration i of the naming loop
CurrentName(baseName, i) ==
    IF i > 0 THEN baseName \o "_" \o ToString(i) ELSE baseName

NameConflict(existingSources, currentName) ==
    \E k \in 1..Len(existingSources) : existingSources[k].Name = currentName

\* the naming loop from iteration i on: the name it leaves in sourceToCreate
RECURSIVE UniqueName(_, _, _)
UniqueName(existingSources, baseName, i) ==
    IF ~ NameConflict(existingSources, CurrentName(baseName, i))
    THEN CurrentName(baseName, i)
    ELSE UniqueName(existingSources, baseName, i + 1)

\* the PostgreSQLDataSourceModel and the request body CreateDataSource
\* marshals from it
DataSourceBody(dataSource, name) ==
    [name |-> name, type |-> DSType, access |-> "direct", url |-> dataSource.URL,
     database |-> dataSource.Database, user |-> dataSource.User, isDefault |-> FALSE,
     jsonData |-> [sslmode |-> dataSource.SSLMode],
     secureJsonData |-> [password |-> dataSource.Password]]

\* the loop of provisionDataSources, entered at data source k: a data source
\* whose connection is listed is answered from the listing, the first one
\* that is not listed is sent to the server
RECURSIVE DataSourcesFrom(_, _)
DataSourcesFrom(r, k) ==
    IF k > Len(cfg.DataSources)
    THEN AfterProvisionDataSources(r, TRUE, "")
    ELSE LET dataSource == cfg.DataSources[k]
             m == FindConnection(r.existingSources, dataSource, 1)
         IN  IF m > 0
             THEN LET source == r.existingSources[m] IN
                  DataSourcesFrom(
                      [r EXCEPT !.sourceResponses =
                          Append(@, [ID |-> source.ID, UID |-> source.UID,
                                     Name |-> source.Name, Message |-> "Already exists"])],
                      k + 1)
             ELSE NewRequest([r EXCEPT !.dsIdx = k], "CreateDataSource",
                             DataSourceBody(dataSource,
                                            UniqueName(r.existingSources, dataSource.Name, 0)))

\* mutant: a listing that does not parse is taken for an empty one
AfterGetDataSourcesEmptyIfUnparsed(r, ok, resp, cause) ==
    IF ~ ok /\ cause # "failed to unmarshal data sources response"
    THEN AfterProvisionDataSources(r, FALSE, "failed to list existing data sources: " \o cause)
    ELSE DataSourcesFrom([r EXCEPT !.existingSources = ParseDataSources(resp),
                                   !.sourceResponses = <<>>],
                         1)

\* provisionDataSources after GetDataSources returned
AfterGetDataSources(r, ok, resp, cause) ==
    IF ~ ok
    THEN AfterProvisionDataSources(r, FALSE, "failed to list existing data sources: " \o cause)
    ELSE DataSourcesFrom([r EXCEPT !.existingSources = ParseDataSources(resp),
                                   !.sourceResponses = <<>>],
                         1)

\* mutant: every error of the creation is taken for "already exists"
AfterCreateDataSourceAnyError(r, ok, resp, lastErr) ==
    IF ~ ok
    THEN DataSourcesFrom(
             [r EXCEPT !.sourceResponses =
                 Append(@, [ID |-> 0, UID |-> "", Name |-> r.body.name,
                            Message |-> "Data source already exists (409 Conflict)"])],
             r.dsIdx + 1)
    ELSE DataSourcesFrom(
             [r EXCEPT !.sourceResponses =
                 Append(@, [ID |-> resp.datasource.id, UID |-> resp.datasource.uid,
                            Name |-> resp.datasource.name, Message |-> ""])],
             r.dsIdx + 1)

\* provisionDataSource after CreateDataSource returned: a 409 of the last
\* attempt counts as success, without id and uid
AfterCreateDataSource(r, ok, resp, lastErr) ==
    IF ~ ok /\ ContainsStatus409(lastErr)
    THEN DataSourcesFrom(
             [r EXCEPT !.sourceResponses =
                 Append(@, [ID |-> 0, UID |-> "", Name |-> r.body.name,
                            Message |-> "Data source already exists (409 Conflict)"])],
             r.dsIdx + 1)
    ELSE IF ~ ok
    THEN AfterProvisionDataSources(r, FALSE, "failed to provision datasource")
    ELSE DataSourcesFrom(
             [r EXCEPT !.sourceResponses =
                 Append(@, [ID |-> resp.datasource.id, UID |-> resp.datasource.uid,
                            Name |-> resp.datasource.name, Message |-> ""])],
             r.dsIdx + 1)

provisionDataSources(r) == NewRequest(r, "GetDataSources", NoBody)

----------------------------------------------------------------------------
(* Stage 1: readiness, and the entry of RunProvisioning *)

\* mutant: the error of waitForGrafanaAPI is dropped
AfterWaitForGrafanaAPIAnyway(r, ok) == provisionDataSources(r)

AfterWaitForGrafanaAPI(r, ok) ==
    IF ok THEN provisionDataSources(r)
    ELSE Failed(r, "AwaitReady", "failed to reach Grafana API")

\* mutant: any status of [200,300) counts as ready
ReadyOn2xx(status) == status >= StatusOK /\ status < StatusMultipleChoices

\* waitForGrafanaAPI: err == nil && resp.StatusCode == 200
Ready(status) == status # TransportFailure /\ status = 200

\* NewClient: the retry count of the client
NewClientRetries(params) == IF params.Retries < 0 THEN 3 ELSE params.Retries

\* NewClient: the timeout, retry count and retry delay of the client, the
\* durations in seconds
NewClient(params) ==
    [Timeout |-> IF params.Timeout = 0 THEN 30 ELSE params.Timeout,
     Retries |-> NewClientRetries(params),
     RetryDelay |-> IF params.RetryDelay <= 0 THEN 5 ELSE params.RetryDelay]

----------------------------------------------------------------------------
(* One HTTP attempt.  The server answers the request as sent; the transport
   may fail, a 503 may be answered in the server's place, and the body of a
   2xx answer may fail to parse. *)

RequestOps == {"GetDataSources", "CreateDataSource", "GetFolders", "CreateFolder",
               "GetDataSource", "SearchDashboards", "ImportDashboard"}

\* the client methods that json.Unmarshal the body of the answer
ParsedOps == {"GetDataSources", "CreateDataSource", "GetFolders", "CreateFolder",
              "SearchDashboards"}

StageOf(op) ==
    CASE op = "Health" -> 1
      [] op \in {"GetDataSources", "CreateDataSource"} -> 2
      [] op \in {"GetFolders", "CreateFolder"} -> 3
      [] op \in {"GetDataSource", "SearchDashboards", "ImportDashboard"} -> 4

\* the request of the lookup of a data source by name
GetDataSourceLine == [method |-> "GET", path |-> "/api/datasources/name/"]

\* mutant: a folder is replaced, the old one deleted first
RequestLineReplacing(op) ==
    CASE op = "Health" -> [method |-> "GET", path |-> "/api/health"]
      [] op = "GetDataSources" -> [method |-> "GET", path |-> "/api/datasources"]
      [] op = "CreateDataSource" -> [method |-> "POST", path |-> "/api/datasources"]
      [] op = "GetFolders" -> [method |-> "GET", path |-> "/api/folders"]
      [] op = "CreateFolder" -> [method |-> "DELETE", path |-> "/api/folders"]
      [] op = "GetDataSource" -> GetDataSourceLine
      [] op = "SearchDashboards" -> [method |-> "GET", path |-> "/api/search"]
      [] op = "ImportDashboard" -> [method |-> "POST", path |-> "/api/dashboards/import"]

\* the method and the endpoint of the request each call of the client makes
RequestLine(op) ==
    CASE op = "Health" -> [method |-> "GET", path |-> "/api/health"]
      [] op = "GetDataSources" -> [method |-> "GET", path |-> "/api/datasources"]
      [] op = "CreateDataSource" -> [method |-> "POST", path |-> "/api/datasources"]
      [] op = "GetFolders" -> [method |-> "GET", path |-> "/api/folders"]
      [] op = "CreateFolder" -> [method |-> "POST", path |-> "/api/folders"]
      [] op = "GetDataSource" -> GetDataSourceLine
      [] op = "SearchDashboards" -> [method |-> "GET", path |-> "/api/search"]
      [] op = "ImportDashboard" -> [method |-> "POST", path |-> "/api/dashboards/import"]

\* the server routes a request by method and endpoint
Serve(g, r, sent) ==
    LET line == RequestLine(r.pc) IN
    CASE line = [method |-> "GET", path |-> "/api/datasources"] -> SrvListDataSources(g)
      [] line = [method |-> "POST", path |-> "/api/datasources"] -> SrvCreateDataSource(g, sent)
      [] line = [method |-> "GET", path |-> "/api/folders"] -> SrvListFolders(g)
      [] line = [method |-> "POST", path |-> "/api/folders"] -> SrvCreateFolder(g, sent)
      [] line = [method |-> "DELETE", path |-> "/api/folders"] -> SrvDeleteFolder(g, sent)
      [] line = [method |-> "GET", path |-> "/api/datasources/name/"] ->
            SrvGetDataSource(g, cfg.Dashboards[r.dIdx].DataSource)
      [] line = [method |-> "GET", path |-> "/api/search"] -> SrvSearch(g)
      [] line = [method |-> "POST", path |-> "/api/dashboards/import"] ->
            SrvImportDashboard(g, sent)
      [] OTHER -> Answer(404, "not found", g)

\* unread: io.ReadAll failed on the body of the answer
Outcome(status, json, resp, g, drained) ==
    [sends |-> TRUE, status |-> status, json |-> json, resp |-> resp, g |-> g,
     drained |-> drained, unread |-> FALSE]

\* the ways the attempt doRequest makes in iteration r.i can end.  The body is
\* one *bytes.Buffer for all attempts: an attempt that reached the server has
\* read it to the end, one that failed in the transport may have
AttemptKinds == {"transport, body unread", "transport, body read", "unavailable",
                 "not json", "served", "answer unread"}

\* the body http.NewRequest takes from the reader doRequest was handed: what
\* is left of the buffer
SentBody(r) ==
    IF r.body = NoBody THEN NoBody
    ELSE IF r.drained THEN EmptyBody ELSE r.body

Attempt(kind, r, g) ==
    LET sent == SentBody(r)
        read == r.body # NoBody
        served == Serve(g, r, sent)
    IN  CASE kind = "transport, body unread" -> Outcome(TransportFailure, FALSE, "", g, r.drained)
          [] kind = "transport, body read" -> Outcome(TransportFailure, FALSE, "", g, read)
          [] kind = "unavailable" -> Outcome(503, FALSE, "service unavailable", g, read)
          [] kind = "not json" ->
                IF served.status >= StatusOK /\ served.status < StatusMultipleChoices
                THEN Outcome(served.status, FALSE, "<html>", served.g, read)
                ELSE Outcome(served.status, served.json, served.resp, served.g, read)
          [] kind = "served" -> Outcome(served.status, served.json, served.resp, served.g, read)
          [] kind = "answer unread" ->
                [Outcome(served.status, FALSE, "", served.g, read) EXCEPT !.unread = TRUE]

\* the loop is not entered when i < client.Retries fails at once
NotSent(r, g) ==
    [sends |-> FALSE, status |-> r.lastErr, json |-> FALSE, resp |-> "", g |-> g,
     drained |-> r.drained, unread |-> FALSE]

Outcomes(r) == IF r.i < r.Retries THEN AttemptKinds ELSE {"not sent"}

OutcomeOf(kind, r, g) == IF kind = "not sent" THEN NotSent(r, g) ELSE Attempt(kind, r, g)

\* mutant: the loop does not count its attempts
doRequestUncounted(r, o) ==
    IF ~ o.sends
    THEN [kind |-> "err", lastErr |-> r.lastErr, r |-> r]
    ELSE IF o.unread
    THEN [kind |-> "err", lastErr |-> 0, r |-> r]
    ELSE IF o.status >= StatusOK /\ o.status < StatusMultipleChoices
    THEN [kind |-> "ok", lastErr |-> 0, r |-> r]
    ELSE [kind |-> "retry", lastErr |-> o.status,
          r |-> [r EXCEPT !.lastErr = o.status, !.drained = o.drained]]

\* mutant: the range of success includes 300
doRequestThrough300(r, o) ==
    IF ~ o.sends
    THEN [kind |-> "err", lastErr |-> r.lastErr, r |-> r]
    ELSE IF o.unread
    THEN [kind |-> "err", lastErr |-> 0, r |-> r]
    ELSE IF o.status >= StatusOK /\ o.status <= StatusMultipleChoices
    THEN [kind |-> "ok", lastErr |-> 0, r |-> r]
    ELSE IF r.i + 1 < r.Retries
    THEN [kind |-> "retry", lastErr |-> o.status,
          r |-> [r EXCEPT !.i = @ + 1, !.lastErr = o.status, !.drained = o.drained]]
    ELSE [kind |-> "err", lastErr |-> o.status, r |-> r]

\* doRequest: what the loop does with the outcome of attempt r.i
doRequest(r, o) ==
    IF ~ o.sends
    THEN [kind |-> "err", lastErr |-> r.lastErr, r |-> r]
    ELSE IF o.unread
    THEN [kind |-> "err", lastErr |-> 0, r |-> r]
    ELSE IF o.status >= StatusOK /\ o.status < StatusMultipleChoices
    THEN [kind |-> "ok", lastErr |-> 0, r |-> r]
    ELSE IF r.i + 1 < r.Retries
    THEN [kind |-> "retry", lastErr |-> o.status,
          r |-> [r EXCEPT !.i = @ + 1, !.lastErr = o.status, !.drained = o.drained]]
    ELSE [kind |-> "err", lastErr |-> o.status, r |-> r]

----------------------------------------------------------------------------
(* The log.  A record is its message and the set of the texts its attributes,
   or the error it carries, are made of; records that carry a message only
   are left out. *)

LogRecord(msg, values) == [msg |-> msg, values |-> values]

\* the text of the error HttpClient.Do returns: the method and the URL
TransportErrorText(op) == {RequestLine(op).method, RequestLine(op).path}

\* the text of lastErr after the attempt r.i ended with outcome o
LastErrText(r, o) ==
    IF o.status = TransportFailure
    THEN {"http request failed on attempt", ToString(r.i + 1)} \cup TransportErrorText(r.pc)
    ELSE {"Grafana API error (Status", ToString(o.status), ToString(r.i + 1), o.resp}

\* mutant: the data source model is logged as it is
EntryLogWholeModel(r) ==
    CASE r.pc = "CreateDataSource" ->
            {LogRecord("Creating new data source",
                       {r.body.name, r.body.user, r.body.secureJsonData.password})}
      [] r.pc = "CreateFolder" -> {LogRecord("Creating new folder", {r.body.title})}
      [] r.pc = "SearchDashboards" ->
            {LogRecord("Reading dashboard file", {cfg.Dashboards[r.dIdx].File}),
             LogRecord("Searching for dashboard",
                       {cfg.Dashboards[r.dIdx].Name, cfg.Dashboards[r.dIdx].Folder})}
      [] r.pc = "ImportDashboard" ->
            {LogRecord("Importing dashboard", {ToString(r.body.overwrite)})}
      [] OTHER -> {}

\* what is logged on the way into the request: by the method of the client
\* and, for the search, by provisionDashboard before it
EntryLog(r) ==
    CASE r.pc = "CreateDataSource" ->
            {LogRecord("Creating new data source", {r.body.name})}
      [] r.pc = "CreateFolder" -> {LogRecord("Creating new folder", {r.body.title})}
      [] r.pc = "SearchDashboards" ->
            {LogRecord("Reading dashboard file", {cfg.Dashboards[r.dIdx].File}),
             LogRecord("Searching for dashboard",
                       {cfg.Dashboards[r.dIdx].Name, cfg.Dashboards[r.dIdx].Folder})}
      [] r.pc = "ImportDashboard" ->
            {LogRecord("Importing dashboard", {ToString(r.body.overwrite)})}
      [] OTHER -> {}

\* the warning of doRequest for an attempt that was not answered with a 2xx
AttemptLog(r, o) ==
    IF ~ o.sends \/ o.unread \/ (o.status >= StatusOK /\ o.status < StatusMultipleChoices)
    THEN {}
    ELSE IF o.status = TransportFailure
    THEN {LogRecord("Grafana API request failed, retrying...",
                    LastErrText(r, o) \cup {ToString(r.i + 1)})}
    ELSE {LogRecord("Grafana API returned error, retrying...",
                    LastErrText(r, o) \cup {ToString(r.i + 1)})}

\* what the method and its caller log when doRequest has returned
ResultLog(r, o, kind) ==
    IF kind = "ok" /\ o.json
    THEN CASE r.pc = "CreateDataSource" ->
                 {LogRecord("Data source successfully created",
                            {o.resp.datasource.name, ToString(o.resp.datasource.id)})}
           [] r.pc = "CreateFolder" ->
                 {LogRecord("Folder successfully created", {o.resp.title, o.resp.uid})}
           [] OTHER -> {}
    ELSE IF kind = "err" /\ o.sends /\ ~ o.unread /\ ContainsStatus409(o.status)
    THEN CASE r.pc = "CreateDataSource" ->
                 {LogRecord("Data source already exists (409 Conflict), continuing...",
                            {r.body.name})}
           [] r.pc = "CreateFolder" ->
                 {LogRecord("Folder already exists (409 Conflict), this is treated as success for provisioning",
                            {r.body.title})}
           [] OTHER -> {}
    ELSE {}

\* what is logged between the return of the request and the next request or
\* the end of the run, r2 being the run after the step: the data sources found
\* in the listing, the folder of the next dashboard, the error main logs
FollowLog(r, o, r2) ==
    LET from == IF r.pc = "GetDataSources" THEN 0 ELSE Len(r.sourceResponses)
        skipped == {k \in (from + 1)..Len(r2.sourceResponses) :
                       r2.sourceResponses[k].Message = "Already exists"}
    IN  {LogRecord("data source already exists. Skipping creation.",
                   {cfg.DataSources[k].Type, cfg.DataSources[k].URL,
                    cfg.DataSources[k].Database, ToString(r2.sourceResponses[k].ID)}) :
            k \in skipped}
        \cup (IF /\ r2.pc = "GetDataSource" /\ r2.dIdx # r.dIdx
                 /\ EqualFold(cfg.Dashboards[r2.dIdx].Folder, General)
                 /\ General \in DOMAIN r2.FoldersMapping
              THEN {LogRecord("Using 'General' folder UID from mapping",
                              {r2.FoldersMapping[General].UID})}
              ELSE {})
        \cup (IF r2.pc = "Failed"
              THEN {LogRecord("FATAL: Grafana provisioning failed",
                              {r2.err.stage, r2.err.cause}
                              \cup (IF o.sends /\ ~ o.unread /\ ~ (o.status >= StatusOK
                                                        /\ o.status < StatusMultipleChoices)
                                    THEN LastErrText(r, o) ELSE {})
                              \cup (IF r.pc = "CreateDataSource" THEN {r.body.name} ELSE {})
                              \cup (IF r.pc \in {"GetFolders", "CreateFolder"}
                                    THEN {cfg.Folders[r.fIdx].Name} ELSE {})
                              \cup (IF StageOf(r.pc) = 4
                                    THEN {cfg.Dashboards[r.dIdx].Name} ELSE {}))}
              ELSE {})

\* the records logged in the step that handles outcome o of attempt r.i
StepLog(r, o, r2) ==
    (IF r.i = 0 THEN EntryLog(r) ELSE {})
    \cup AttemptLog(r, o)
    \cup ResultLog(r, o, doRequest(r, o).kind)
    \cup FollowLog(r, o, r2)

\* the warning of waitForGrafanaAPI for a probe not answered with 200, and the
\* error main logs when the last probe is spent
HealthLog(status, i, r2) ==
    {LogRecord("Grafana API not ready, retrying...",
               (IF status = TransportFailure THEN TransportErrorText("Health")
                ELSE {ToString(status)}) \cup {ToString(i + 1)})}
    \cup (IF r2.pc = "Failed"
          THEN {LogRecord("FATAL: Grafana provisioning failed", {r2.err.stage, r2.err.cause})}
          ELSE {})

\* the passwords of the configuration
Passwords == {cfg.DataSources[k].Password : k \in 1..Len(cfg.DataSources)}

\* the texts a request carries outside of secureJsonData.password
OpenFields(op, sent) ==
    IF sent \in {NoBody, EmptyBody} THEN {}
    ELSE CASE op = "CreateDataSource" ->
                 {sent.name, sent.type, sent.access, sent.url, sent.database, sent.user,
                  sent.jsonData.sslmode}
           [] op = "CreateFolder" -> {sent.title}
           [] op = "ImportDashboard" ->
                 {sent.dashboard.title, sent.dashboard.uid, sent.folderUid, sent.message}
                 \cup {sent.inputs[k].value : k \in 1..Len(sent.inputs)}
                 \cup {sent.dashboard.inputs[k].value : k \in 1..Len(sent.dashboard.inputs)}
           [] OTHER -> {}

----------------------------------------------------------------------------
(* History *)

InitHist ==
    [ext |-> 0, extDuring |-> FALSE, healthOK |-> FALSE, sent |-> {}, ds409 |-> {},
     folder409 |-> FALSE,
     faults |-> FALSE,      \* an attempt was not answered by the server, or not in JSON
     dsPosted |-> {},       \* the data sources a creation request was sent for
     created |-> {},        \* name and connection of the creation requests sent
     dsOther |-> {},        \* those whose creation ended in a transport failure or
                            \* a status outside [200,300) other than 409
     runNo |-> 1,           \* the first or the second run over the same cfg
     imports |-> {},        \* id/uid carried by the imports sent in this run
     forDashboard |-> {},   \* the requests of the Dashboards stage, by dashboard
     inLog |-> {},          \* the passwords a log record has carried
     inRequest |-> {},      \* the passwords a request has carried in the open
     secured |-> {},        \* the passwords sent as secureJsonData.password
     unparsed |-> {},       \* the calls whose 2xx answer json.Unmarshal rejected
     file |-> [none |-> TRUE],  \* config.yaml as parsed, where the process is followed
     exit |-> 0 - 1,        \* the exit status of the process, -1 while it runs
     attempts |-> <<>>,     \* a call of doRequest followed on its own: its attempts
     returned |-> [kind |-> "", lastErr |-> 0, body |-> 0],     \* and what it returned
     assigned |-> <<>>,     \* id/uid the server gave to the dashboards imported
     first |-> [assigned |-> <<>>, dashboards |-> 0]]   \* as the first run left it

Note(h, r, o, r2) ==
    [h EXCEPT !.sent = IF o.sends THEN @ \cup {r.pc} ELSE @,
              !.inLog = @ \cup {p \in Passwords :
                                  \E rec \in StepLog(r, o, r2) : p \in rec.values},
              !.inRequest = IF o.sends
                            THEN @ \cup (Passwords \cap
                                         OpenFields(r.pc, IF r.drained THEN EmptyBody ELSE r.body))
                            ELSE @,
              !.secured = IF o.sends /\ r.pc = "CreateDataSource" /\ ~ r.drained
                          THEN @ \cup {r.body.secureJsonData.password} ELSE @,
              !.unparsed = IF /\ o.sends /\ ~ o.unread /\ ~ o.json /\ r.pc \in ParsedOps
                              /\ o.status >= StatusOK /\ o.status < StatusMultipleChoices
                           THEN @ \cup {r.pc} ELSE @,
              !.ds409 = IF o.sends /\ r.pc = "CreateDataSource" /\ o.status = StatusConflict
                        THEN @ \cup {r.dsIdx} ELSE @,
              !.faults = @ \/ (o.sends /\ (o.status \in {TransportFailure, 503} \/ ~ o.json)),
              !.folder409 = @ \/ (o.sends /\ r.pc = "CreateFolder" /\ o.status = StatusConflict),
              !.dsPosted = IF o.sends /\ r.pc = "CreateDataSource" THEN @ \cup {r.dsIdx} ELSE @,
              !.created = IF o.sends /\ r.pc = "CreateDataSource" /\ ~ r.drained
                          THEN @ \cup {[dsIdx |-> r.dsIdx, name |-> r.body.name,
                                        type |-> r.body.type, url |-> r.body.url,
                                        database |-> r.body.database]}
                          ELSE @,
              !.dsOther = IF /\ r.pc = "CreateDataSource" /\ o.sends /\ ~ o.unread
                             /\ doRequest(r, o).kind = "err" /\ o.status # StatusConflict
                          THEN @ \cup {r.dsIdx} ELSE @,
              !.forDashboard = IF o.sends /\ r.pc \in RequestOps /\ StageOf(r.pc) = 4
                               THEN @ \cup {[op |-> r.pc, dIdx |-> r.dIdx]} ELSE @,
              !.imports = IF o.sends /\ r.pc = "ImportDashboard" /\ ~ r.drained
                          THEN @ \cup {[dIdx |-> r.dIdx, id |-> r.body.dashboard.id,
                                        uid |-> r.body.dashboard.uid]}
                          ELSE @,
              !.assigned = IF /\ o.sends /\ r.pc = "ImportDashboard" /\ ~ r.drained
                              /\ o.status = StatusOK
                           THEN LET d == o.g.dashboards[ImportTarget(o.g, r.body)]
                                IN  Append(@, [dIdx |-> r.dIdx, id |-> d.id, uid |-> d.uid])
                           ELSE @]

\* no second instance: the value of peer where one provisioner runs alone
NoPeer == [run |-> InitRun, hist |-> InitHist]

----------------------------------------------------------------------------
(* Configurations *)

DSNames == {"m", "m_1"}
Databases == {"d1", "d2"}
FolderNames == {"logs", "General"}
DashboardFolders == {"logs", "general"}

DataSourceConfig(name, database) ==
    [Name |-> name, Type |-> DSType, URL |-> DSURL, Database |-> database,
     User |-> "collector", Password |-> "pw-" \o database, SSLMode |-> "disable"]

DataSourceConfigs == {DataSourceConfig(n, d) : n \in DSNames, d \in Databases}

\* data source names are unique within a configuration
UniqueNames(s) == \A j, k \in 1..Len(s) : j # k => s[j].Name # s[k].Name

DashboardConfigs ==
    {[Name |-> "dash", Folder |-> f, File |-> "dash.json", DataSource |-> n,
      ImportVar |-> "DS_A"] : f \in DashboardFolders, n \in DSNames}

Configs ==
    {[Grafana |-> [Retries |-> n], DataSources |-> ds, Folders |-> fs, Dashboards |-> dbs] :
        n \in 0..MaxRetries,
        ds \in {s \in SeqsUpTo(DataSourceConfigs, MaxDataSources) : UniqueNames(s)},
        fs \in SeqsUpTo({[Name |-> t] : t \in FolderNames}, MaxFolders),
        dbs \in SeqsUpTo(DashboardConfigs, MaxDashboards)}

----------------------------------------------------------------------------
(* Actions *)

Init ==
    /\ cfg \in Configs
    /\ grafana = EmptyGrafana
    /\ run = InitRun
    /\ hist = InitHist
    /\ peer = NoPeer

\* RunProvisioning is entered: NewClient, then waitForGrafanaAPI
RunProvisioning ==
    /\ run.pc = "Start"
    /\ run' = NewRequest([run EXCEPT !.Retries = NewClientRetries(cfg.Grafana)],
                         "AwaitReady", NoBody)
    /\ UNCHANGED <<cfg, grafana, hist, peer>>

\* one probe of /api/health by waitForGrafanaAPI: ready on status 200 only
waitForGrafanaAPI ==
    /\ run.pc = "AwaitReady"
    /\ IF run.i < run.Retries
       THEN \E status \in {TransportFailure, StatusOK, 204, 503} :
               /\ run' = IF Ready(status) THEN AfterWaitForGrafanaAPI(run, TRUE)
                         ELSE IF run.i + 1 < run.Retries
                         THEN [run EXCEPT !.i = @ + 1, !.lastErr = status]
                         ELSE AfterWaitForGrafanaAPI(run, FALSE)
               /\ hist' = [hist EXCEPT !.sent = @ \cup {"Health"},
                                       !.healthOK = @ \/ status = StatusOK,
                                       !.faults = @ \/ status # StatusOK,
                                       !.inLog =
                                          IF status = StatusOK THEN @
                                          ELSE @ \cup {p \in Passwords :
                                                  \E rec \in HealthLog(status, run.i, run') :
                                                      p \in rec.values}]
       ELSE /\ run' = AfterWaitForGrafanaAPI(run, FALSE)
            /\ hist' = hist
    /\ UNCHANGED <<cfg, grafana, peer>>

GetDataSources ==
    /\ run.pc = "GetDataSources"
    /\ \E kind \in Outcomes(run) :
          LET o == OutcomeOf(kind, run, grafana)
              res == doRequest(run, o)
          IN
          /\ run' = IF res.kind = "retry" THEN res.r
                    ELSE IF res.kind = "err"
                    THEN AfterGetDataSources(run, FALSE, <<>>, "request failed")
                    ELSE IF ~ o.json
                    THEN AfterGetDataSources(run, FALSE, <<>>,
                                             "failed to unmarshal data sources response")
                    ELSE AfterGetDataSources(run, TRUE, o.resp, "")
          /\ grafana' = o.g
          /\ hist' = Note(hist, run, o, run')
    /\ UNCHANGED <<cfg, peer>>

CreateDataSource ==
    /\ run.pc = "CreateDataSource"
    /\ \E kind \in Outcomes(run) :
          LET o == OutcomeOf(kind, run, grafana)
              res == doRequest(run, o)
          IN
          /\ run' = IF res.kind = "retry" THEN res.r
                    ELSE IF res.kind = "err"
                    THEN AfterCreateDataSource(run, FALSE, o.resp, res.lastErr)
                    ELSE IF ~ o.json
                    THEN AfterCreateDataSource(run, FALSE, o.resp, 0)
                    ELSE AfterCreateDataSource(run, TRUE, o.resp, 0)
          /\ grafana' = o.g
          /\ hist' = Note(hist, run, o, run')
    /\ UNCHANGED <<cfg, peer>>

GetFolders ==
    /\ run.pc = "GetFolders"
    /\ \E kind \in Outcomes(run) :
          LET o == OutcomeOf(kind, run, grafana)
              res == doRequest(run, o)
          IN
          /\ run' = IF res.kind = "retry" THEN res.r
                    ELSE IF res.kind = "err"
                    THEN AfterGetFolders(run, FALSE, <<>>, "request failed")
                    ELSE IF ~ o.json
                    THEN AfterGetFolders(run, FALSE, <<>>, "failed to unmarshal folders response")
                    ELSE AfterGetFolders(run, TRUE, o.resp, "")
          /\ grafana' = o.g
          /\ hist' = Note(hist, run, o, run')
    /\ UNCHANGED <<cfg, peer>>

CreateFolder ==
    /\ run.pc = "CreateFolder"
    /\ \E kind \in Outcomes(run) :
          LET o == OutcomeOf(kind, run, grafana)
              res == doRequest(run, o)
          IN
          /\ run' = IF res.kind = "retry" THEN res.r
                    ELSE IF res.kind = "err"
                    THEN AfterCreateFolder(run, FALSE, o.resp, res.lastErr)
                    ELSE IF ~ o.json
                    THEN AfterCreateFolder(run, FALSE, o.resp, 0)
                    ELSE AfterCreateFolder(run, TRUE, o.resp, 0)
          /\ grafana' = o.g
          /\ hist' = Note(hist, run, o, run')
    /\ UNCHANGED <<cfg, peer>>

\* json.Unmarshal of the record of GET /api/datasources/name/:name
ParseDataSource(d) ==
    [ID |-> d.id, UID |-> d.uid, Name |-> d.name, Type |-> d.type, URL |-> d.url,
     Database |-> d.database]

GetDataSource ==
    /\ run.pc = "GetDataSource"
    /\ \E kind \in Outcomes(run) :
          LET o == OutcomeOf(kind, run, grafana)
              res == doRequest(run, o)
          IN
          /\ run' = IF res.kind = "retry" THEN res.r
                    ELSE IF res.kind = "err" \/ ~ o.json
                    THEN AfterGetDataSource(run, FALSE, o.resp,
                                            DataSourceNotFound(cfg.Dashboards[run.dIdx]))
                    ELSE AfterGetDataSource(run, TRUE, ParseDataSource(o.resp), "")
          /\ grafana' = o.g
          /\ hist' = Note(hist, run, o, run')
    /\ UNCHANGED <<cfg, peer>>

SearchDashboards ==
    /\ run.pc = "SearchDashboards"
    /\ \E kind \in Outcomes(run) :
          LET o == OutcomeOf(kind, run, grafana)
              res == doRequest(run, o)
          IN
          /\ run' = IF res.kind = "retry" THEN res.r
                    ELSE IF res.kind = "err"
                    THEN AfterSearchDashboards(run, FALSE, <<>>, "failed to search dashboards")
                    ELSE IF ~ o.json
                    THEN AfterSearchDashboards(run, FALSE, <<>>,
                                               "failed to unmarshal dashboard search response")
                    ELSE AfterSearchDashboards(run, TRUE, ParseSearch(o.resp), "")
          /\ grafana' = o.g
          /\ hist' = Note(hist, run, o, run')
    /\ UNCHANGED <<cfg, peer>>

\* ImportDashboard does not read the body of the answer
ImportDashboard ==
    /\ run.pc = "ImportDashboard"
    /\ \E kind \in Outcomes(run) :
          LET o == OutcomeOf(kind, run, grafana)
              res == doRequest(run, o)
          IN
          /\ run' = IF res.kind = "retry" THEN res.r
                    ELSE IF res.kind = "err"
                    THEN AfterImportDashboard(run, FALSE, "dashboard import failed")
                    ELSE AfterImportDashboard(run, TRUE, "")
          /\ grafana' = o.g
          /\ hist' = Note(hist, run, o, run')
    /\ UNCHANGED <<cfg, peer>>

\* somebody else writes to the server while the run is under way, or has
\* written before it began
ExternalBodies ==
    {[op |-> "CreateDataSource",
      body |-> DataSourceBody(DataSourceConfig(n, d), n)] : n \in {"m", "x"}, d \in {"d1", "d3"}}
    \cup {[op |-> "CreateFolder", body |-> [title |-> "logs"]]}
    \cup {[op |-> "ImportDashboard",
           body |-> [dashboard |-> [title |-> "dash", id |-> 0, uid |-> "",
                                    hasInputs |-> FALSE, inputs |-> <<>>],
                     inputs |-> <<>>, folderUid |-> "", overwrite |-> TRUE,
                     message |-> "by hand"]]}

ExternalWrite ==
    /\ hist.ext < MaxExternal
    /\ run.pc \notin {"Done", "Failed"}
    /\ \E w \in ExternalBodies :
          LET a == Serve(grafana, [pc |-> w.op], w.body) IN
          /\ a.status = StatusOK
          /\ grafana' = a.g
    /\ hist' = [hist EXCEPT !.ext = @ + 1, !.extDuring = @ \/ run.pc # "Start"]
    /\ UNCHANGED <<cfg, run, peer>>

Next ==
    \/ RunProvisioning
    \/ waitForGrafanaAPI
    \/ GetDataSources
    \/ CreateDataSource
    \/ GetFolders
    \/ CreateFolder
    \/ GetDataSource
    \/ SearchDashboards
    \/ ImportDashboard
    \/ ExternalWrite

Spec == Init /\ [][Next]_vars

----------------------------------------------------------------------------
(* What the server holds *)

HoldsDataSource(g, dataSource) ==
    \E d \in Range(g.dataSources) :
        d.type = dataSource.Type /\ d.url = dataSource.URL /\ d.database = dataSource.Database

HoldsFolder(g, name) == \E f \in Range(g.folders) : f.title = name

HoldsDashboard(g, dashboardConfig) ==
    \E d \in Range(ParseSearch(SrvSearch(g).resp)) :
        DashboardMatches(d, dashboardConfig.Name, dashboardConfig.Folder)

\* C1: whenever a run ends in Done, the server holds a record with the
\* connection (type, url, database) of every configured data source, a folder
\* of every configured folder name and a dashboard for every configured
\* (name, folder) pair.
C1_DoneMeansProvisioned ==
    run.pc = "Done" =>
        /\ \A k \in 1..Len(cfg.DataSources) : HoldsDataSource(grafana, cfg.DataSources[k])
        /\ \A k \in 1..Len(cfg.Folders) : HoldsFolder(grafana, cfg.Folders[k].Name)
        /\ \A k \in 1..Len(cfg.Dashboards) : HoldsDashboard(grafana, cfg.Dashboards[k])

----------------------------------------------------------------------------
(* Two runs in sequence over one configuration, the server written by nobody
   else once the first run has begun *)

\* the state of the server before the first run
PreexistingWrite ==
    /\ run.pc = "Start"
    /\ hist.runNo = 1
    /\ ExternalWrite

\* the provisioner is started again after a run that ended in Done
Rerun ==
    /\ run.pc = "Done"
    /\ hist.runNo = 1
    /\ run' = InitRun
    /\ hist' = [hist EXCEPT !.runNo = 2, !.healthOK = FALSE, !.sent = {}, !.ds409 = {},
                            !.folder409 = FALSE, !.faults = FALSE, !.dsPosted = {}, !.imports = {},
                            !.created = {},
                            !.forDashboard = {},
                            !.assigned = <<>>,
                            !.first = [assigned |-> hist.assigned,
                                       dashboards |-> Len(grafana.dashboards)]]
    /\ UNCHANGED <<cfg, grafana, peer>>

NextTwice ==
    \/ RunProvisioning
    \/ waitForGrafanaAPI
    \/ GetDataSources
    \/ CreateDataSource
    \/ GetFolders
    \/ CreateFolder
    \/ GetDataSource
    \/ SearchDashboards
    \/ ImportDashboard
    \/ PreexistingWrite
    \/ Rerun

SpecTwice == Init /\ [][NextTwice]_vars

\* the id/uid the first run's server gave to the dashboard of entry k
FirstAssigned(k) ==
    {[id |-> hist.first.assigned[j].id, uid |-> hist.first.assigned[j].uid] :
        j \in {j \in 1..Len(hist.first.assigned) : hist.first.assigned[j].dIdx = k}}

\* C2: the second of two runs with the same configuration issues no
\* data-source create request and no folder create request, creates no
\* additional dashboard, and each of its dashboard imports carries the id/uid
\* the server assigned to that dashboard on the first run.
C2_IdempotentRerun ==
    hist.runNo = 2 =>
        /\ "CreateDataSource" \notin hist.sent
        /\ "CreateFolder" \notin hist.sent
        /\ Len(grafana.dashboards) = hist.first.dashboards
        /\ \A imp \in hist.imports : [id |-> imp.id, uid |-> imp.uid] \in FirstAssigned(imp.dIdx)

----------------------------------------------------------------------------
(* provisionDataSource against any listing: one configured data source, the
   server holding a drawn list of data sources of this and of other
   connections, under this and other names *)

ListedNames == {"m", "m_1", "m_2", "x"}

ListedConnections ==
    {[type |-> DSType, url |-> DSURL, database |-> "d1"],
     [type |-> DSType, url |-> DSURL, database |-> "d2"],
     [type |-> DSType, url |-> "other-postgres:5432", database |-> "d1"],
     [type |-> "prometheus", url |-> DSURL, database |-> "d1"]}

Listing(names, conns) ==
    [k \in 1..Len(names) |->
        [id |-> k, uid |-> UidOf(k), name |-> names[k], type |-> conns[k].type,
         url |-> conns[k].url, database |-> conns[k].database]]

Listings ==
    UNION {{Listing(names, conns) : conns \in [1..Len(names) -> ListedConnections]} :
              names \in {s \in SeqsUpTo(ListedNames, MaxListing) :
                            \A j, k \in 1..Len(s) : j # k => s[j] # s[k]}}

InitDS ==
    /\ cfg \in {[Grafana |-> [Retries |-> 1],
                 DataSources |-> <<DataSourceConfig(n, "d1")>>,
                 Folders |-> <<>>, Dashboards |-> <<>>] : n \in DSNames}
    /\ grafana \in {[EmptyGrafana EXCEPT !.dataSources = l, !.nextId = Len(l) + 1] :
                       l \in Listings}
    /\ run = InitRun
    /\ hist = InitHist
    /\ peer = NoPeer

NextDS ==
    \/ RunProvisioning
    \/ waitForGrafanaAPI
    \/ GetDataSources
    \/ CreateDataSource

SpecDS == InitDS /\ [][NextDS]_vars

\* the records of the listing with the connection of configured data source k
Listed(k) ==
    {j \in 1..Len(run.existingSources) :
        /\ run.existingSources[j].Type = cfg.DataSources[k].Type
        /\ run.existingSources[j].URL = cfg.DataSources[k].URL
        /\ run.existingSources[j].Database = cfg.DataSources[k].Database}

\* C3: if a record of the listing has the type, url and database of the
\* desired data source, provisionDataSource returns the id, uid and name of
\* such a record and sends no POST /api/datasources, whatever the names are.
C3_ConnectionIdentity ==
    \A k \in 1..Len(cfg.DataSources) :
        Listed(k) # {} =>
            /\ k \notin hist.dsPosted
            /\ k <= Len(run.sourceResponses) =>
                  \E j \in Listed(k) :
                      /\ run.sourceResponses[k].ID = run.existingSources[j].ID
                      /\ run.sourceResponses[k].UID = run.existingSources[j].UID
                      /\ run.sourceResponses[k].Name = run.existingSources[j].Name

\* a listed record of the desired connection under another name was returned
C3_Witness ==
    \E k \in 1..Len(cfg.DataSources) :
        /\ k <= Len(run.sourceResponses)
        /\ \E j \in Listed(k) :
              /\ run.existingSources[j].Name # cfg.DataSources[k].Name
              /\ run.sourceResponses[k].UID = run.existingSources[j].UID
        /\ \E j \in 1..Len(run.existingSources) :
              run.existingSources[j].Name = cfg.DataSources[k].Name

\* the names of the listing
ListedNamesOf(existingSources) == {existingSources[j].Name : j \in 1..Len(existingSources)}

\* C4: when no listed record has the desired connection, the name of the
\* create request is the desired name if no listed record carries it, and
\* otherwise name_k for the smallest k >= 1 such that no listed record is
\* named name_k.
C4_NameResolution ==
    run.pc = "CreateDataSource" =>
        LET name == cfg.DataSources[run.dsIdx].Name
            taken == ListedNamesOf(run.existingSources)
            free == {k \in 1..(Len(run.existingSources) + 1) :
                        (name \o "_" \o ToString(k)) \notin taken}
        IN  /\ Listed(run.dsIdx) = {}
            /\ run.body.name = IF name \notin taken THEN name
                               ELSE name \o "_" \o ToString(CHOOSE k \in free : \A j \in free : k <= j)

\* names m and m_1 are taken and the request carries m_2
C4_Witness ==
    /\ run.pc = "CreateDataSource"
    /\ cfg.DataSources[run.dsIdx].Name = "m"
    /\ {"m", "m_1"} \subseteq ListedNamesOf(run.existingSources)
    /\ run.body.name = "m_2"

----------------------------------------------------------------------------
(* The data source a dashboard refers to *)

\* the positions of the configured data sources named name
ConfiguredAs(name) == {k \in 1..Len(cfg.DataSources) : cfg.DataSources[k].Name = name}

\* the values the import request under way carries for the placeholder var
SubstitutedFor(var) ==
    {run.body.inputs[j].value : j \in {i \in 1..Len(run.body.inputs) :
                                          run.body.inputs[i].name = var}}

\* C5: the UID an import request substitutes for a placeholder mapped to the
\* configured data source N is the UID of the record the data-source stage
\* resolved for N in this run (reused by connection or created), when that
\* stage learned a UID and nobody else wrote to the server during the run.
C5_ImportUsesResolvedUID ==
    (run.pc = "ImportDashboard" /\ ~ hist.extDuring) =>
        LET dashboardConfig == cfg.Dashboards[run.dIdx] IN
        \A k \in ConfiguredAs(dashboardConfig.DataSource) :
            run.sourceResponses[k].UID # "" =>
                SubstitutedFor(dashboardConfig.ImportVar) = {run.sourceResponses[k].UID}

----------------------------------------------------------------------------
(* A creation request answered with 409 *)

\* C6: a data source whose creation request the server answered with 409 is
\* returned by provisionDataSource as a success carrying the resolved name, an
\* empty UID and id 0, and the run does not fail in the data-source stage on it.
C6_ConflictIsSuccess ==
    \A k \in hist.ds409 :
        /\ ~ (run.pc = "Failed" /\ run.err.stage = "DataSources" /\ run.dsIdx = k)
        /\ Len(run.sourceResponses) >= k =>
              /\ run.sourceResponses[k].ID = 0
              /\ run.sourceResponses[k].UID = ""
              /\ run.sourceResponses[k].Name =
                    UniqueName(run.existingSources, cfg.DataSources[k].Name, 0)

----------------------------------------------------------------------------
(* The order of the stages *)

StageIndex(stage) == CHOOSE s \in 1..Len(Stages) : Stages[s] = stage

SentOfStage(s) == {op \in hist.sent : StageOf(op) = s}

DataSourcesReconciled == Len(run.sourceResponses) = Len(cfg.DataSources)

FoldersReconciled ==
    \A k \in 1..Len(cfg.Folders) : cfg.Folders[k].Name \in DOMAIN run.FoldersMapping

\* C8: a data-source request has been issued only after a health probe
\* succeeded, a folder request only after every configured data source was
\* reconciled, a dashboard request only after every configured folder was
\* reconciled; while the run waits on a request of one stage, no request of a
\* later stage has been issued.
C8_StageOrdering ==
    /\ SentOfStage(2) # {} => hist.healthOK
    /\ SentOfStage(3) # {} => hist.healthOK /\ DataSourcesReconciled
    /\ SentOfStage(4) # {} => hist.healthOK /\ DataSourcesReconciled /\ FoldersReconciled
    /\ run.pc \in RequestOps => \A op \in hist.sent : StageOf(op) <= StageOf(run.pc)
    /\ run.pc = "AwaitReady" => hist.sent \subseteq {"Health"}

C8_Witness ==
    /\ "ImportDashboard" \in hist.sent
    /\ Len(cfg.DataSources) > 0
    /\ Len(cfg.Folders) > 0
    /\ run.pc = "Done"

\* C9: a run that ended Failed names one of the four stages; every stage
\* before the named one succeeded, the named stage did not fail without the
\* request it begins with, no request of a later stage has been issued, and
\* nothing is issued any more.
C9_FailureHalts ==
    /\ [](run.pc = "Failed" =>
            /\ run.err.stage \in Range(Stages)
            /\ LET s == StageIndex(run.err.stage) IN
               /\ \A op \in hist.sent : StageOf(op) <= s
               /\ s = 1 => ~ hist.healthOK
               /\ s >= 2 => hist.healthOK /\ "GetDataSources" \in hist.sent
               /\ s = 3 => "GetFolders" \in hist.sent
               /\ s >= 3 => DataSourcesReconciled
               /\ s >= 4 => FoldersReconciled)
    /\ [][run.pc = "Failed" => run' = run /\ hist'.sent = hist.sent]_vars

C9_Witness ==
    /\ run.pc = "Failed"
    /\ run.err.stage = "DataSources"
    /\ Len(cfg.Folders) > 0
    /\ Len(cfg.Dashboards) > 0

----------------------------------------------------------------------------
(* Termination: one run against any server state it may find.  Every HTTP
   call returns, so a run that waits on a request takes its next step. *)

RunStep ==
    \/ RunProvisioning
    \/ waitForGrafanaAPI
    \/ GetDataSources
    \/ CreateDataSource
    \/ GetFolders
    \/ CreateFolder
    \/ GetDataSource
    \/ SearchDashboards
    \/ ImportDashboard

NextFair == RunStep \/ PreexistingWrite

FairSpec == Init /\ [][NextFair]_vars /\ WF_vars(RunStep)

\* C10: every run reaches Done or Failed.
C10_Terminates == <>(run.pc \in {"Done", "Failed"})

C10_Witness ==
    /\ run.pc = "Done"
    /\ run.Retries > 1
    /\ hist.sent = RequestOps \cup {"Health"}

----------------------------------------------------------------------------
(* The Dashboards stage over lists of dashboards: one run against an empty
   server, the configuration as main builds it (Imports set, DataSource and
   ImportVar empty) or as a caller of the package may fill it *)

MaxDashboardList == 2

DashboardImport(name, dataSource) == [Name |-> name, DataSource |-> dataSource]

TwoImports == <<DashboardImport("DS_A", "m"), DashboardImport("DS_B", "m_1")>>

\* DataSource, ImportVar and Imports of a dashboard
DashboardRefs ==
    {[DataSource |-> "", ImportVar |-> "", Imports |-> TwoImports],
     [DataSource |-> "m", ImportVar |-> "DS_A", Imports |-> TwoImports],
     [DataSource |-> "m", ImportVar |-> "DS_A", Imports |-> <<>>],
     [DataSource |-> "x", ImportVar |-> "DS_A", Imports |-> <<>>]}

DashboardsOfStage ==
    {[Name |-> "dash", Folder |-> f, File |-> file, DataSource |-> refs.DataSource,
      ImportVar |-> refs.ImportVar, Imports |-> refs.Imports] :
        f \in {"logs", "general", "payments"},
        file \in {"mixed.json", "plain.json"},
        refs \in DashboardRefs}

DashConfigs ==
    {[Grafana |-> [Retries |-> n],
      DataSources |-> <<DataSourceConfig("m", "d1"), DataSourceConfig("m_1", "d2")>>,
      Folders |-> fs, Dashboards |-> dbs] :
        n \in 1..MaxRetries,
        fs \in SeqsUpTo({[Name |-> t] : t \in FolderNames}, MaxFolders),
        dbs \in SeqsUpTo(DashboardsOfStage, MaxDashboardList)}

InitDash ==
    /\ cfg \in DashConfigs
    /\ grafana = EmptyGrafana
    /\ run = InitRun
    /\ hist = InitHist
    /\ peer = NoPeer

NextDash ==
    \/ RunProvisioning
    \/ waitForGrafanaAPI
    \/ GetDataSources
    \/ CreateDataSource
    \/ GetFolders
    \/ CreateFolder
    \/ GetDataSource
    \/ SearchDashboards
    \/ ImportDashboard

SpecDash == InitDash /\ [][NextDash]_vars

\* the run has come to provisionDashboards: the folder mapping is complete
DashboardsEntered ==
    \/ run.pc \in {"GetDataSource", "SearchDashboards", "ImportDashboard", "Done"}
    \/ run.pc = "Failed" /\ run.err.stage = "Dashboards"

\* dashboard k names a folder that is neither General nor a key of the mapping
UnconfiguredFolder(k) ==
    LET f == cfg.Dashboards[k].Folder IN
    ~ EqualFold(f, General) /\ f \notin DOMAIN run.FoldersMapping

\* ImportDashboard returned its error for dashboard k
ImportFailed(k) ==
    /\ run.pc = "Failed"
    /\ run.dIdx = k
    /\ run.err = [stage |-> "Dashboards", cause |-> "dashboard import failed"]

\* the import of dashboard k was answered with success and ImportDashboard
\* returned nil
Imported(k) == (\E a \in Range(hist.assigned) : a.dIdx = k) /\ ~ ImportFailed(k)

\* C11 as stated: when a configured dashboard references a folder that is not
\* General and not a key of the folder mapping, the run does not end Done and
\* no import request at all is issued in that run.
C11_NoImportInTheRun ==
    DashboardsEntered =>
        \A k \in 1..Len(cfg.Dashboards) :
            UnconfiguredFolder(k) => run.pc # "Done" /\ "ImportDashboard" \notin hist.sent

\* C11 amended: when dashboard k references a folder that is not General and
\* not a key of the folder mapping, the run does not end Done, no request is
\* issued for dashboard k or a later one, and once the dashboards before k are
\* imported the run has failed in the Dashboards stage with an error naming
\* the folder.
C11_FolderErrorPerDashboard ==
    DashboardsEntered =>
        \A k \in 1..Len(cfg.Dashboards) :
            UnconfiguredFolder(k) =>
                /\ run.pc # "Done"
                /\ \A q \in hist.forDashboard : q.dIdx < k
                /\ (\A j \in 1..(k - 1) : Imported(j)) =>
                      /\ run.pc = "Failed"
                      /\ run.err = [stage |-> "Dashboards",
                                    cause |-> "dashboard folder validation failed: "
                                              \o cfg.Dashboards[k].Folder]

C11_Witness ==
    /\ run.pc = "Failed"
    /\ Len(cfg.Dashboards) = 2
    /\ UnconfiguredFolder(2)
    /\ Imported(1)
    /\ run.err.cause = "dashboard folder validation failed: payments"

----------------------------------------------------------------------------
(* The import request provisionDashboard hands to ImportDashboard *)

\* the dashboard the request under way is for
Current == cfg.Dashboards[run.dIdx]

\* C12: for a dashboard whose folder is "General" in any letter case the run
\* never fails with the folder validation error, and when the mapping has no
\* entry "General" the import request carries the empty folder UID.
C12_GeneralNeverFails ==
    /\ \A k \in 1..Len(cfg.Dashboards) :
          EqualFold(cfg.Dashboards[k].Folder, General) =>
              run.err.cause # "dashboard folder validation failed: " \o cfg.Dashboards[k].Folder
    /\ (/\ run.pc = "ImportDashboard"
        /\ EqualFold(Current.Folder, General)
        /\ General \notin DOMAIN run.FoldersMapping) => run.body.folderUid = ""

C12_Witness ==
    /\ run.pc = "ImportDashboard"
    /\ Current.Folder = "general"
    /\ General \notin DOMAIN run.FoldersMapping
    /\ "logs" \in DOMAIN run.FoldersMapping
    /\ run.body.folderUid = ""

\* C13: for a dashboard whose folder is "General" in any letter case, when the
\* mapping has an entry "General" the import request carries that entry's UID.
C13_GeneralUsesMappedUID ==
    (/\ run.pc = "ImportDashboard"
     /\ EqualFold(Current.Folder, General)
     /\ General \in DOMAIN run.FoldersMapping) =>
        run.body.folderUid = run.FoldersMapping[General].UID

WellFormed(input) == input.object /\ input.hasName

UIDsNamed(name) == {d.uid : d \in {e \in Range(grafana.dataSources) : e.name = name}}

\* C15: in the import request of a dashboard configured with import mappings,
\* every __inputs entry named by the placeholder of a mapping carries the UID
\* of the data source that mapping names.
C15_EveryImportApplied ==
    run.pc = "ImportDashboard" =>
        \A m \in Range(Current.Imports) :
            \A j \in 1..Len(run.body.inputs) :
                run.body.inputs[j].name = m.Name =>
                    /\ run.body.inputs[j].hasValue
                    /\ run.body.inputs[j].value \in UIDsNamed(m.DataSource)

\* the dashboards the server holds under the title name in the folder named
\* folder; the default folder has the empty title
OnServer(name, folder) ==
    {d \in Range(grafana.dashboards) :
        /\ d.title = name
        /\ LET folderTitle == FolderTitleOf(grafana, d.folderUid) IN
           \/ folderTitle = folder
           \/ EqualFold(folder, General) /\ (folderTitle = "" \/ EqualFold(folderTitle, General))}

\* C16: every import request has overwrite = true and the fixed provenance
\* message, whether a dashboard of the configured name and folder is on the
\* server or not.
C16_OverwriteAlways ==
    run.pc = "ImportDashboard" =>
        /\ run.body.overwrite = TRUE
        /\ run.body.message = "Automated provisioning by grafana-provisioner"

C16_Witness ==
    /\ run.pc = "ImportDashboard"
    /\ OnServer(Current.Name, Current.Folder) # {}
    /\ Current.Folder = "general"
    /\ run.body.dashboard.id # 0
    /\ run.body.overwrite

\* C17: in every import request the document's title is the configured name
\* and its id and uid are those of a dashboard the server holds for the
\* configured name and folder, or 0 and "" when it holds none; they are never
\* the id and uid of the definition file.
C17_IdentityFromServer ==
    run.pc = "ImportDashboard" =>
        LET document == run.body.dashboard
            file == ReadDashboardFile(Current.File).doc
            held == OnServer(Current.Name, Current.Folder)
        IN  /\ document.title = Current.Name
            /\ IF held = {}
               THEN document.id = 0 /\ document.uid = ""
               ELSE \E d \in held : document.id = d.id /\ document.uid = d.uid
            /\ document.id # file.id
            /\ document.uid # file.uid

C17_Witness ==
    /\ run.pc = "ImportDashboard"
    /\ run.body.dashboard.uid # ""
    /\ OnServer(Current.Name, Current.Folder) # {}
    /\ Current.Folder = "logs"

----------------------------------------------------------------------------
(* Two instances of the provisioner with one configuration against one
   server, their HTTP attempts interleaved in any order.  The instance taking
   steps is run, the other one waits in peer. *)

DistinctConnections(s) ==
    \A j, k \in 1..Len(s) : j # k => ~ SameConnection(s[j], s[k])

PairConfigs ==
    {[Grafana |-> [Retries |-> n], DataSources |-> ds, Folders |-> <<>>, Dashboards |-> <<>>] :
        n \in 1..MaxRetries,
        ds \in {s \in SeqsUpTo(DataSourceConfigs, MaxDataSources) :
                   UniqueNames(s) /\ DistinctConnections(s)}}

InitPair ==
    /\ cfg \in PairConfigs
    /\ grafana = EmptyGrafana
    /\ run = InitRun
    /\ hist = InitHist
    /\ peer = NoPeer

\* the other instance takes the next steps
Switch ==
    /\ run' = peer.run
    /\ hist' = peer.hist
    /\ peer' = [run |-> run, hist |-> hist]
    /\ UNCHANGED <<cfg, grafana>>

NextPair ==
    \/ RunProvisioning
    \/ waitForGrafanaAPI
    \/ GetDataSources
    \/ CreateDataSource
    \/ Switch

SpecPair == InitPair /\ [][NextPair]_vars

BothEnded == run.pc \in {"Done", "Failed"} /\ peer.run.pc \in {"Done", "Failed"}

RecordsOf(dataSource) ==
    {k \in 1..Len(grafana.dataSources) :
        /\ grafana.dataSources[k].type = dataSource.Type
        /\ grafana.dataSources[k].url = dataSource.URL
        /\ grafana.dataSources[k].database = dataSource.Database}

\* C18: when both instances have ended and every attempt of either was
\* answered by the server, neither has failed and the server holds exactly one
\* data source for each configured connection.
C18_TwoInstances ==
    (BothEnded /\ ~ hist.faults /\ ~ peer.hist.faults) =>
        /\ run.pc = "Done"
        /\ peer.run.pc = "Done"
        /\ \A k \in 1..Len(cfg.DataSources) : Cardinality(RecordsOf(cfg.DataSources[k])) = 1

\* C19: when the server holds no data source of the name dashboard k refers
\* to, the run does not end Done, no search and no import request is issued
\* for dashboard k, and once the dashboards before k are imported and the
\* folder of k is resolved, the run has failed in the Dashboards stage with
\* the error that names the data source and the dashboard.
C19_UnknownDataSourceFails ==
    DashboardsEntered =>
        \A k \in 1..Len(cfg.Dashboards) :
            UIDsNamed(cfg.Dashboards[k].DataSource) = {} =>
                /\ run.pc # "Done"
                /\ \A q \in hist.forDashboard :
                      q.dIdx = k => q.op \notin {"SearchDashboards", "ImportDashboard"}
                /\ (/\ \A j \in 1..(k - 1) : Imported(j)
                    /\ ~ UnconfiguredFolder(k)
                    /\ run.pc = "Failed") =>
                      run.err = [stage |-> "Dashboards",
                                 cause |-> DataSourceNotFound(cfg.Dashboards[k])]

C19_Witness ==
    /\ run.pc = "Failed"
    /\ Len(cfg.Dashboards) = 2
    /\ Imported(1)
    /\ [op |-> "GetDataSource", dIdx |-> 2] \in hist.forDashboard
    /\ ~ hist.faults
    /\ run.err.cause = "dashboard dataSource 'x' not found for dashboard 'dash'"

----------------------------------------------------------------------------
(* What a run leaves on the server *)

\* the records of before the step are there after it, a dashboard under its
\* id and uid
Kept ==
    /\ Range(grafana.dataSources) \subseteq Range(grafana'.dataSources)
    /\ Range(grafana.folders) \subseteq Range(grafana'.folders)
    /\ \A d \in Range(grafana.dashboards) :
          \E e \in Range(grafana'.dashboards) : e.id = d.id /\ e.uid = d.uid

\* C20: every request issued is a GET or a POST, and no step of a run, ending
\* Done or Failed, takes a data source, a folder or a dashboard off the server.
C20_NeverRemoves ==
    [][/\ \A op \in hist'.sent : RequestLine(op).method \in {"GET", "POST"}
       /\ Kept]_vars

C20_Witness ==
    /\ run.pc = "Failed"
    /\ run.err.stage = "Dashboards"
    /\ hist.ext = 0
    /\ Len(grafana.dataSources) = 2
    /\ Len(grafana.folders) = 1
    /\ Len(grafana.dashboards) = 0

----------------------------------------------------------------------------
(* Where the password of a data source goes *)

\* C21: no log record and no request field other than secureJsonData.password
\* has carried a configured password, whether the run goes on, is Done or
\* Failed; the creation request carries the password of its data source
\* there.
C21_PasswordOnlySecured ==
    /\ hist.inLog = {}
    /\ hist.inRequest = {}
    /\ Passwords \cap OpenFields(run.pc, run.body) = {}
    /\ run.pc = "CreateDataSource" =>
          run.body.secureJsonData.password = cfg.DataSources[run.dsIdx].Password

C21_Witness ==
    /\ run.pc = "Failed"
    /\ run.err.stage = "DataSources"
    /\ hist.faults
    /\ hist.secured = {"pw-d1", "pw-d2"}

----------------------------------------------------------------------------
(* doRequest on its own: one call by a client of any retry count, each
   attempt answered with any status or not at all, the body of the answer
   read or not.  The body of the answer to attempt k is written k. *)

MaxAttempts == 3    \* largest retry count of the client

Statuses == {TransportFailure, StatusOK, 204, StatusMultipleChoices, StatusConflict, 503}

InitRequest ==
    /\ cfg \in {c \in Configs : /\ c.DataSources = <<>> /\ c.Folders = <<>>
                               /\ c.Dashboards = <<>> /\ c.Grafana.Retries = 0}
    /\ grafana = EmptyGrafana
    /\ \E n \in 0..MaxAttempts, body \in {NoBody, [title |-> "logs"]} :
          run = NewRequest([InitRun EXCEPT !.Retries = NewClientRetries([Retries |-> n])],
                           "doRequest", body)
    /\ hist = InitHist
    /\ peer = NoPeer

\* one iteration of the loop of doRequest, or its return when the loop is
\* not entered
doRequestCall ==
    /\ run.pc = "doRequest"
    /\ \E status \in Statuses, unread \in BOOLEAN :
          LET o == IF run.i < run.Retries
                   THEN [Outcome(status, TRUE, run.i + 1, grafana, run.body # NoBody)
                            EXCEPT !.unread = unread /\ status # TransportFailure]
                   ELSE NotSent(run, grafana)
              res == doRequest(run, o)
          IN  /\ run' = IF res.kind = "retry" THEN res.r ELSE [run EXCEPT !.pc = "Returned"]
              /\ hist' = [hist EXCEPT
                            !.attempts = IF o.sends
                                         THEN Append(@, [status |-> o.status, unread |-> o.unread,
                                                         body |-> o.resp])
                                         ELSE @,
                            !.returned = IF res.kind = "retry" THEN @
                                         ELSE [kind |-> res.kind, lastErr |-> res.lastErr,
                                               body |-> IF res.kind = "ok" THEN o.resp ELSE 0]]
    /\ UNCHANGED <<cfg, grafana, peer>>

NextRequest == doRequestCall

SpecRequest == InitRequest /\ [][NextRequest]_vars

Is2xx(status) == status >= 200 /\ status < 300

\* the attempts answered with a status in [200,300)
Answered2xx == {k \in 1..Len(hist.attempts) : Is2xx(hist.attempts[k].status)}

\* and those among them whose answer was read to the end
Read2xx == {k \in Answered2xx : ~ hist.attempts[k].unread}

\* C22 as stated: at most Retries attempts are sent; the call returns the body
\* of the first attempt answered with a status in [200,300) and sends nothing
\* after it; it returns an error exactly when no attempt was answered with such
\* a status; after a last attempt answered outside [200,300) the error carries
\* that status.
C22_RetryBoundAsStated ==
    /\ Len(hist.attempts) <= run.Retries
    /\ run.pc = "Returned" =>
          LET n == Len(hist.attempts) IN
          /\ hist.returned.kind = "err" <=> Answered2xx = {}
          /\ Answered2xx # {} =>
                /\ Answered2xx = {n}
                /\ hist.returned.body = hist.attempts[n].body
          /\ (n > 0 /\ hist.attempts[n].status # TransportFailure
                    /\ ~ Is2xx(hist.attempts[n].status)) =>
                hist.returned.lastErr = hist.attempts[n].status

\* C22 amended: at most Retries attempts are sent; an answer whose body cannot
\* be read ends the call at once with an error that names no status; the call
\* returns the body of the first attempt answered with a status in [200,300)
\* and read to the end, and sends nothing after it; it returns an error exactly
\* when there is no such attempt; after a last attempt answered outside
\* [200,300) and read, the error carries that status.
C22_RetryBound ==
    /\ Len(hist.attempts) <= run.Retries
    /\ \A k \in 1..Len(hist.attempts) :
          (hist.attempts[k].unread \/ Is2xx(hist.attempts[k].status)) =>
              k = Len(hist.attempts) /\ run.pc = "Returned"
    /\ run.pc = "Returned" =>
          LET n == Len(hist.attempts) IN
          /\ hist.returned.kind = "err" <=> Read2xx = {}
          /\ Read2xx # {} => hist.returned.body = hist.attempts[n].body
          /\ (n > 0 /\ hist.attempts[n].unread) => hist.returned.lastErr = 0
          /\ (n > 0 /\ ~ hist.attempts[n].unread
                    /\ hist.attempts[n].status # TransportFailure
                    /\ ~ Is2xx(hist.attempts[n].status)) =>
                hist.returned.lastErr = hist.attempts[n].status

C22_Witness ==
    /\ run.pc = "Returned"
    /\ run.Retries = 3
    /\ Len(hist.attempts) = 3
    /\ hist.attempts[1].status = TransportFailure
    /\ hist.attempts[2].status = StatusConflict
    /\ hist.attempts[3].status = 204
    /\ hist.returned = [kind |-> "ok", lastErr |-> 0, body |-> 3]

----------------------------------------------------------------------------
(* Readiness *)

FailedAwaitingReady == run.pc = "Failed" /\ run.err.stage = "AwaitReady"

\* C23: waitForGrafanaAPI returns success exactly when a probe was answered
\* with status 200; it sends at most Retries probes, one more only after a
\* probe that was not answered with 200, and none after the first 200; when
\* the last of Retries probes is not answered with 200 the run fails in stage
\* AwaitReady, and then no request but the probes has been sent.
C23_Readiness ==
    /\ [](/\ run.pc = "AwaitReady" => (run.i = 0 \/ run.i < run.Retries)
          /\ run.pc \notin {"Start", "AwaitReady"} => (hist.healthOK <=> ~ FailedAwaitingReady)
          /\ run.pc \in {"Start", "AwaitReady"} => ~ hist.healthOK
          /\ ~ hist.healthOK => hist.sent \subseteq {"Health"})
    /\ [][run.pc = "AwaitReady" =>
             \/ /\ run'.pc = "AwaitReady" /\ run'.i = run.i + 1 /\ run'.i < run.Retries
                /\ ~ hist'.healthOK
             \/ /\ run'.pc \notin {"AwaitReady", "Failed"} /\ run.i < run.Retries
                /\ hist'.healthOK
             \/ /\ run'.pc = "Failed" /\ run'.err.stage = "AwaitReady"
                /\ run.i + 1 >= run.Retries
                /\ ~ hist'.healthOK]_run

\* a probe answered 204 has been taken for not ready
C23_Witness ==
    /\ run.pc = "AwaitReady"
    /\ run.i = 1
    /\ run.lastErr = 204
    /\ ~ hist.healthOK

----------------------------------------------------------------------------
(* The process: main loads config.yaml, sets up the logger, converts the
   configuration and calls RunProvisioning.  A key left out of the file
   decodes to the zero value of its field; durations are in seconds. *)

NotExited == 0 - 1

LogLevels == {"info", "loud"}
LogFormats == {"text", "debug", "yaml"}

AppDataSource ==
    [Name |-> "m", Host |-> "metrics-postgres", Port |-> 5432, User |-> "collector",
     Password |-> "pw-d1", DbName |-> "d1", SslMode |-> "disable"]

AppDashboard ==
    [Name |-> "dash", Folder |-> "General", File |-> "dash.json",
     Imports |-> <<DashboardImport("DS_A", "m")>>]

AppConfigs ==
    {[Log |-> [Level |-> l, Format |-> f],
      Grafana |-> [URL |-> "http://grafana:3000", Token |-> "token", Timeout |-> t,
                   Retries |-> n, RetryDelay |-> d],
      Folders |-> <<>>, DataSources |-> ds, Dashboards |-> dbs] :
        l \in LogLevels, f \in LogFormats, t \in {0, 30}, n \in 0..MaxRetries, d \in {0, 10},
        ds \in {<<>>, <<AppDataSource>>}, dbs \in {<<>>, <<AppDashboard>>}}

\* validate.Struct over AppConfig: the tags of LogConfig and GrafanaConfig;
\* the elements of the slices are not validated
Load(a) ==
    /\ a.Log.Level \in {"debug", "info", "warn", "error"}
    /\ a.Log.Format \in {"debug", "json", "text"}
    /\ a.Grafana.URL # ""
    /\ a.Grafana.Token # ""
    /\ a.Grafana.Timeout > 0
    /\ a.Grafana.Retries > 0
    /\ a.Grafana.RetryDelay > 0

\* the grafana.Config main builds from the AppConfig
ProvisionerConfig(a) ==
    [Grafana |-> [URL |-> a.Grafana.URL, Token |-> a.Grafana.Token,
                  Timeout |-> a.Grafana.Timeout, Retries |-> a.Grafana.Retries,
                  RetryDelay |-> a.Grafana.RetryDelay],
     DataSources |-> [k \in 1..Len(a.DataSources) |->
                         [Name |-> a.DataSources[k].Name, Type |-> DSType,
                          URL |-> a.DataSources[k].Host \o ":" \o ToString(a.DataSources[k].Port),
                          Database |-> a.DataSources[k].DbName,
                          User |-> a.DataSources[k].User,
                          Password |-> a.DataSources[k].Password,
                          SSLMode |-> a.DataSources[k].SslMode]],
     Folders |-> [k \in 1..Len(a.Folders) |-> [Name |-> a.Folders[k].Name]],
     Dashboards |-> [k \in 1..Len(a.Dashboards) |->
                        [Name |-> a.Dashboards[k].Name, Folder |-> a.Dashboards[k].Folder,
                         File |-> a.Dashboards[k].File, DataSource |-> "", ImportVar |-> "",
                         Imports |-> a.Dashboards[k].Imports]]]

\* main up to the call of RunProvisioning: the status it exits with, or
\* NotExited when it goes on to the call.  A format other than text and json
\* leaves the logger nil, and slog.SetDefault(nil) panics.
ExitBeforeRun(a) ==
    IF ~ Load(a) THEN 1
    ELSE IF a.Log.Level \notin {"debug", "info", "warn", "error"} THEN 1
    ELSE IF a.Log.Format \notin {"text", "json"} THEN 2
    ELSE NotExited

\* mutant: the error of RunProvisioning is logged and the process ends as usual
ExitAfterRunLogsOnly(r) == 0

\* main after RunProvisioning returned: os.Exit(1) on an error
ExitAfterRun(r) == IF r.pc = "Failed" THEN 1 ELSE 0

\* the zero value of the Config before main has built it
ZeroConfig ==
    [Grafana |-> [URL |-> "", Token |-> "", Timeout |-> 0, Retries |-> 0, RetryDelay |-> 0],
     DataSources |-> <<>>, Folders |-> <<>>, Dashboards |-> <<>>]

InitMain ==
    /\ cfg = ZeroConfig
    /\ grafana = EmptyGrafana
    /\ run = [InitRun EXCEPT !.pc = "main"]
    /\ \E a \in AppConfigs : hist = [InitHist EXCEPT !.file = a]
    /\ peer = NoPeer

main ==
    /\ run.pc = "main"
    /\ LET status == ExitBeforeRun(hist.file) IN
       IF status = NotExited
       THEN /\ cfg' = ProvisionerConfig(hist.file)
            /\ run' = [run EXCEPT !.pc = "Start"]
            /\ hist' = hist
       ELSE /\ cfg' = cfg
            /\ run' = [run EXCEPT !.pc = "Exited"]
            /\ hist' = [hist EXCEPT !.exit = status]
    /\ UNCHANGED <<grafana, peer>>

mainReturn ==
    /\ run.pc \in {"Done", "Failed"}
    /\ hist.exit = NotExited
    /\ hist' = [hist EXCEPT !.exit = ExitAfterRun(run)]
    /\ UNCHANGED <<cfg, grafana, run, peer>>

NextMain ==
    \/ main
    \/ RunProvisioning
    \/ waitForGrafanaAPI
    \/ GetDataSources
    \/ CreateDataSource
    \/ GetDataSource
    \/ mainReturn

SpecMain == InitMain /\ [][NextMain]_vars

\* the keys timeout, retries and retry-delay are left out of the file
Omitted(a) ==
    a.Grafana.Timeout = 0 /\ a.Grafana.Retries = 0 /\ a.Grafana.RetryDelay = 0

\* the defaults of the configuration table
DocumentedDefaults == [Timeout |-> 30, Retries |-> 5, RetryDelay |-> 10]

\* C24: when timeout, retries and retry-delay are left out of the file, main
\* goes on to RunProvisioning, and the client works with a timeout of 30 s,
\* 5 retries and a retry delay of 10 s.
C24_DefaultsApplied ==
    (Omitted(hist.file) /\ run.pc # "main") =>
        /\ run.pc # "Exited"
        /\ NewClient(cfg.Grafana) = DocumentedDefaults

\* C25: the process exits with status 0 exactly when the configuration was
\* loaded and RunProvisioning returned no error; after a failure of loading,
\* of the logger or of provisioning the status is not 0.
C25_ExitStatus ==
    hist.exit # NotExited =>
        (hist.exit = 0 <=> (Load(hist.file) /\ run.pc = "Done"))

C25_Witness ==
    /\ hist.exit = 1
    /\ Load(hist.file)
    /\ run.pc = "Failed"
    /\ run.err.stage = "DataSources"
    /\ Len(grafana.dataSources) = 0

----------------------------------------------------------------------------
(* FindFirstDashboardByFolderAndName over any search result: entries of both
   types, of the name looked for and of another, in no folder, in General and
   in a folder of its own, in any order; the entry at position k has id k. *)

MaxSearch == 3      \* longest search result

SearchShapes ==
    [Type : {"dash-db", "dash-folder"}, Title : {"dash", "other"},
     FolderTitle : {"", "General", "logs"}]

SearchResults ==
    {[k \in 1..Len(shapes) |->
         [ID |-> k, UID |-> UidOf(k), Title |-> shapes[k].Title, Type |-> shapes[k].Type,
          FolderTitle |-> shapes[k].FolderTitle]] :
        shapes \in SeqsUpTo(SearchShapes, MaxSearch)}

InitSearch ==
    /\ cfg \in {c \in DashConfigs : /\ c.Grafana.Retries = 1 /\ c.Folders = <<>>
                                   /\ Len(c.Dashboards) = 1
                                   /\ c.Dashboards[1].File = "plain.json"
                                   /\ c.Dashboards[1].DataSource = "m"
                                   /\ c.Dashboards[1].Imports = <<>>}
    /\ grafana = EmptyGrafana
    /\ run = [InitRun EXCEPT !.pc = "FindFirstDashboardByFolderAndName", !.dIdx = 1]
    /\ hist = InitHist
    /\ peer = NoPeer

\* the search has returned searchResults: the loop over them
FindFirstDashboard ==
    /\ run.pc = "FindFirstDashboardByFolderAndName"
    /\ \E searchResults \in SearchResults :
          hist' = [hist EXCEPT
                      !.attempts = searchResults,
                      !.returned = [kind |-> "ok", lastErr |-> 0,
                                    body |-> FindFirstDashboardByFolderAndName(
                                                searchResults, cfg.Dashboards[run.dIdx].Name,
                                                cfg.Dashboards[run.dIdx].Folder)]]
    /\ run' = [run EXCEPT !.pc = "Returned"]
    /\ UNCHANGED <<cfg, grafana, peer>>

NextSearch == FindFirstDashboard

SpecSearch == InitSearch /\ [][NextSearch]_vars

\* the positions of the search result the rule of C26 allows to be returned
Eligible(searchResults, name, folder) ==
    {k \in 1..Len(searchResults) :
        /\ searchResults[k].Type = "dash-db"
        /\ searchResults[k].Title = name
        /\ \/ searchResults[k].FolderTitle = folder
           \/ /\ Lower(folder) = "general"
              /\ searchResults[k].FolderTitle = "" \/ Lower(searchResults[k].FolderTitle) = "general"}

\* C26: the entry returned is the first entry of the search result that is a
\* dashboard, has the name looked for and is in the folder looked for (for
\* General in any letter case: in no folder or in General); without such an
\* entry the zero value is returned, and no error; a dashboard of the name in
\* another folder is not returned.
C26_SearchRule ==
    run.pc = "Returned" =>
        LET eligible == Eligible(hist.attempts, cfg.Dashboards[1].Name, cfg.Dashboards[1].Folder)
        IN  /\ hist.returned.kind = "ok"
            /\ IF eligible = {}
               THEN hist.returned.body = ZeroDashboardSearchResponse
               ELSE \E k \in eligible :
                       /\ \A j \in eligible : k <= j
                       /\ hist.returned.body = hist.attempts[k]

\* a dashboard of the name in another folder comes first and is passed over
C26_Witness ==
    /\ run.pc = "Returned"
    /\ cfg.Dashboards[1].Folder = "general"
    /\ Len(hist.attempts) = 3
    /\ hist.attempts[1].Type = "dash-db" /\ hist.attempts[1].Title = "dash"
    /\ hist.attempts[1].FolderTitle = "logs"
    /\ hist.attempts[2].Type = "dash-folder" /\ hist.attempts[2].Title = "dash"
    /\ hist.attempts[3].Type = "dash-db" /\ hist.attempts[3].Title = "dash"
    /\ hist.attempts[3].FolderTitle = ""
    /\ hist.returned.body.ID = 3

----------------------------------------------------------------------------
(* The Folders stage over lists of folders, against a server that holds
   folders already: titles that differ in letter case only, a title
   configured twice. *)

MaxFolderList == 2      \* longest cfg.Folders of this stage

FolderTitles == {"logs", "Logs"}

\* the server after the folders of the titles were created on it, in order
RECURSIVE WithFolders(_, _)
WithFolders(g, titles) ==
    IF titles = <<>> THEN g
    ELSE WithFolders(SrvCreateFolder(g, [title |-> Head(titles)]).g, Tail(titles))

InitFolders ==
    /\ cfg \in {[Grafana |-> [Retries |-> n], DataSources |-> <<>>, Folders |-> fs,
                 Dashboards |-> <<>>] :
                   n \in 1..MaxRetries,
                   fs \in SeqsUpTo({[Name |-> t] : t \in FolderTitles}, MaxFolderList)}
    /\ grafana \in {WithFolders(EmptyGrafana, titles) :
                       titles \in {<<>>, <<"Logs">>, <<"logs">>, <<"Logs", "logs">>}}
    /\ run = InitRun
    /\ hist = InitHist
    /\ peer = NoPeer

NextFolders ==
    \/ RunProvisioning
    \/ waitForGrafanaAPI
    \/ GetDataSources
    \/ GetFolders
    \/ CreateFolder

SpecFolders == InitFolders /\ [][NextFolders]_vars

\* the folder provisionFolders is at
CurrentFolder == cfg.Folders[run.fIdx].Name

\* the step ends the work on the current folder with success
FolderProvisioned ==
    /\ run.pc \in {"GetFolders", "CreateFolder"}
    /\ \/ run'.pc = "Done"
       \/ run'.pc = "GetFolders" /\ run'.fIdx = run.fIdx + 1

\* C27: a folder whose configured name is the title of a folder of the
\* listing, letter for letter, is mapped to the id and uid of that folder and
\* no creation request is made for it; for any other folder one creation
\* request is made, with the configured name as title, and when it succeeds
\* the id, uid and title of the folder the server created are mapped.
C27_FolderReuse ==
    [][/\ (run.pc = "GetFolders" /\ FolderProvisioned) =>
             \E f \in Range(grafana.folders) :
                 /\ f.title = CurrentFolder
                 /\ run'.FoldersMapping[CurrentFolder] =
                       [ID |-> f.id, UID |-> f.uid, Title |-> f.title]
       /\ (run.pc = "GetFolders" /\ run'.pc = "CreateFolder") =>
             /\ ~ \E f \in Range(grafana.folders) : f.title = CurrentFolder
             /\ run'.fIdx = run.fIdx
             /\ run'.body = [title |-> CurrentFolder]
       /\ run'.pc = "CreateFolder" =>
             \/ run.pc = "GetFolders"
             \/ /\ run.pc = "CreateFolder" /\ run'.fIdx = run.fIdx
                /\ run'.i = run.i + 1 /\ run'.body = run.body
       /\ (run.pc = "CreateFolder" /\ FolderProvisioned) =>
             \E f \in Range(grafana'.folders) :
                 /\ f \notin Range(grafana.folders)
                 /\ f.title = CurrentFolder
                 /\ run'.FoldersMapping[CurrentFolder] =
                       [ID |-> f.id, UID |-> f.uid, Title |-> f.title]
       /\ run'.fIdx >= run.fIdx]_run

\* "logs" was created although the server held "Logs", and the second "logs"
\* of the configuration was found in the listing
C27_Witness ==
    /\ run.pc = "Done"
    /\ cfg.Folders = <<[Name |-> "logs"], [Name |-> "logs"]>>
    /\ Len(grafana.folders) = 2
    /\ grafana.folders[1].title = "Logs"
    /\ run.FoldersMapping["logs"].UID = grafana.folders[2].uid
    /\ "CreateFolder" \in hist.sent

----------------------------------------------------------------------------
(* A creation of a data source that ends in an error other than 409 *)

----------------------------------------------------------------------------
(* The UID of a data source that was answered 409 *)

\* the configured data sources of the name whose creation was taken for
\* success on a 409: the result carries no UID
ConflictResolved(name) ==
    {k \in ConfiguredAs(name) :
        /\ k <= Len(run.sourceResponses)
        /\ run.sourceResponses[k].UID = ""
        /\ run.sourceResponses[k].Message = "Data source already exists (409 Conflict)"}

\* C29: in an import request for a dashboard whose data source was resolved on
\* a 409, the value substituted for the placeholder is the UID the server
\* holds for the data source of that name, and it is not empty.
C29_RequeriedUID ==
    (run.pc = "ImportDashboard" /\ ConflictResolved(Current.DataSource) # {}) =>
        /\ SubstitutedFor(Current.ImportVar) # {}
        /\ SubstitutedFor(Current.ImportVar) \subseteq UIDsNamed(Current.DataSource)
        /\ "" \notin SubstitutedFor(Current.ImportVar)

C29_Witness ==
    /\ run.pc = "ImportDashboard"
    /\ ConflictResolved(Current.DataSource) # {}
    /\ hist.extDuring
    /\ SubstitutedFor("DS_A") = {"uid1"}

----------------------------------------------------------------------------
(* The order of the dashboards *)

\* C30: the dashboards are taken up one after the other in the order of the
\* configuration, the next one only when the import of the one before was
\* accepted by the server; ImportDashboard is called once for a dashboard;
\* every request sent is for a dashboard up to the one the loop is at, and
\* once the run is Failed nothing is sent any more.
C30_OneBadDashboardAborts ==
    /\ [](\A q \in hist.forDashboard : q.dIdx >= 1 /\ q.dIdx <= run.dIdx)
    /\ [][/\ run.pc # "Failed"
          /\ run'.dIdx \in {run.dIdx, run.dIdx + 1}
          /\ (run.dIdx >= 1 /\ run'.dIdx = run.dIdx + 1) =>
                /\ run.pc = "ImportDashboard"
                /\ Len(hist'.assigned) = Len(hist.assigned) + 1
                /\ hist'.assigned[Len(hist'.assigned)].dIdx = run.dIdx
          /\ run'.pc = "ImportDashboard" =>
                \/ run.pc = "SearchDashboards" /\ run'.dIdx = run.dIdx
                \/ /\ run.pc = "ImportDashboard" /\ run'.dIdx = run.dIdx
                   /\ run'.i = run.i + 1 /\ run'.body = run.body]_vars

\* the import of the first of two dashboards failed
C30_Witness ==
    /\ run.pc = "Failed"
    /\ run.err.cause = "dashboard import failed"
    /\ Len(cfg.Dashboards) = 2
    /\ run.dIdx = 1
    /\ [op |-> "ImportDashboard", dIdx |-> 1] \in hist.forDashboard
    /\ hist.assigned = <<>>


----------------------------------------------------------------------------
(* Malformed entries of __inputs *)

\* the names of a list of entries, in its order
NamesOf(inputs) == [j \in 1..Len(inputs) |-> inputs[j].name]

\* C31: the inputs of an import request hold no entry that is not an object
\* or has no string name, the names of its entries are the names of the
\* file's other entries in the order of the file, and it is empty for a file
\* without __inputs; a search that returned its results is followed by the
\* import request whatever the entries are, the run failing in a search step
\* only with the error of the search.
C31_MalformedInputsSkipped ==
    /\ [](run.pc = "ImportDashboard" =>
            LET doc == ReadDashboardFile(Current.File).doc IN
            /\ \A j \in 1..Len(run.body.inputs) :
                  run.body.inputs[j].object /\ run.body.inputs[j].hasName
            /\ NamesOf(run.body.inputs)
                  = NamesOf(SelectSeq(doc.inputs, LAMBDA e : e.object /\ e.hasName))
            /\ ~ doc.hasInputs => run.body.inputs = <<>>)
    /\ [][(run.pc = "SearchDashboards" /\ run'.pc = "Failed") =>
              run'.err.cause \in {"failed to search dashboards",
                                  "failed to unmarshal dashboard search response"}]_vars

\* the file without __inputs is imported, and the request for the file with
\* two malformed entries among five carries the other three
C31_Witness ==
    /\ run.pc = "ImportDashboard"
    /\ run.dIdx = 2
    /\ cfg.Dashboards[1].File = "plain.json"
    /\ Imported(1)
    /\ Current.File = "mixed.json"
    /\ Len(ReadDashboardFile(Current.File).doc.inputs) = 5
    /\ NamesOf(run.body.inputs) = <<"DS_A", "DS_B", "DS_C">>


----------------------------------------------------------------------------
(* Answers that do not parse *)

\* C32: once a 2xx answer to the data-source listing, the data-source
\* creation, the folder listing, the folder creation or the dashboard search
\* has failed to parse, the run has ended Failed in the stage of that call;
\* the step that receives such an answer records no listing, no creation
\* result and no folder in the mapping.
C32_UnparsedIsFatal ==
    /\ [](\A op \in hist.unparsed :
              run.pc = "Failed" /\ run.err.stage = Stages[StageOf(op)])
    /\ [][hist'.unparsed # hist.unparsed =>
              /\ run'.existingSources = run.existingSources
              /\ run'.sourceResponses = run.sourceResponses
              /\ run'.FoldersMapping = run.FoldersMapping]_vars

\* the server has created the data source and answered 2xx, the answer did not
\* parse
C32_Witness ==
    /\ hist.unparsed = {"CreateDataSource"}
    /\ run.pc = "Failed"
    /\ run.err.stage = "DataSources"
    /\ Len(grafana.dataSources) = 1
    /\ run.sourceResponses = <<>>


----------------------------------------------------------------------------
(* The naming loop of provisionDataSource, one iteration a step: the
   candidate names it found taken are kept in hist.attempts *)

InitNaming ==
    /\ cfg \in {[Grafana |-> [Retries |-> 1],
                 DataSources |-> <<DataSourceConfig(n, "d1")>>,
                 Folders |-> <<>>, Dashboards |-> <<>>] : n \in DSNames}
    /\ grafana = EmptyGrafana
    /\ \E l \in Listings :
          run = [InitRun EXCEPT !.pc = "provisionDataSource", !.dsIdx = 1,
                                !.existingSources = ParseDataSources(l)]
    /\ hist = InitHist
    /\ peer = NoPeer

\* one iteration of for i := 0; ; i++, followed as far as iteration
\* MaxListing + 1
NamingLoop ==
    /\ run.pc = "provisionDataSource"
    /\ run.i <= MaxListing + 1
    /\ LET currentName == CurrentName(cfg.DataSources[run.dsIdx].Name, run.i) IN
       IF NameConflict(run.existingSources, currentName)
       THEN /\ run' = [run EXCEPT !.i = @ + 1]
            /\ hist' = [hist EXCEPT !.attempts = Append(@, currentName)]
       ELSE /\ run' = [run EXCEPT !.pc = "Named", !.body = [name |-> currentName]]
            /\ hist' = hist
    /\ UNCHANGED <<cfg, grafana, peer>>

NextNaming == NamingLoop

\* the loop runs on until it breaks
SpecNaming == InitNaming /\ [][NextNaming]_vars /\ WF_vars(NamingLoop)

\* the candidate names the loop has tried so far
Candidates ==
    hist.attempts \o (IF run.pc = "Named" THEN <<run.body.name>> ELSE <<>>)

\* C33: the naming loop ends; the candidates it tries are the base name, then
\* base_1, base_2, ..., at most one more than the listing has records; every
\* candidate it goes past is the name of a listed record and the one it stops
\* at is the name of none.
C33_NamingTerminates ==
    /\ <>(run.pc = "Named")
    /\ [](/\ Len(Candidates) <= Len(run.existingSources) + 1
          /\ \A k \in 1..Len(Candidates) :
                Candidates[k] = IF k = 1 THEN cfg.DataSources[1].Name
                                ELSE cfg.DataSources[1].Name \o "_" \o ToString(k - 1)
          /\ \A k \in 1..Len(hist.attempts) :
                \E j \in 1..Len(run.existingSources) :
                    run.existingSources[j].Name = hist.attempts[k]
          /\ run.pc = "Named" =>
                \A j \in 1..Len(run.existingSources) :
                    run.existingSources[j].Name # run.body.name)

\* three records, three names taken, the fourth candidate is free
C33_Witness ==
    /\ run.pc = "Named"
    /\ Len(run.existingSources) = 3
    /\ hist.attempts = <<"m", "m_1", "m_2">>
    /\ run.body.name = "m_3"


----------------------------------------------------------------------------
(* Duplicates within one run *)

\* C34: no two creation requests of a run, sent for different configured data
\* sources, carry the same type, url and database, and no two carry the same
\* name.
C34_NoDuplicateCreation ==
    \A a, b \in hist.created :
        a.dsIdx # b.dsIdx =>
            /\ <<a.type, a.url, a.database>> # <<b.type, b.url, b.database>>
            /\ a.name # b.name


----------------------------------------------------------------------------
(* The body of a retried POST *)

PostOps == {"CreateDataSource", "CreateFolder", "ImportDashboard"}

\* C35: an attempt of a POST after the first one carries the body the call
\* was made with.
C35_RetrySameBody ==
    (run.pc \in PostOps /\ run.i > 0 /\ run.i < run.Retries) => SentBody(run) = run.body


----------------------------------------------------------------------------
(* The folder mapping after the Folders stage *)

MappedTitles == {"logs", "Logs", "General"}

\* one run whose dashboard names a folder that is configured or is not, on a
\* server that holds no folder or the folder Logs
InitMapping ==
    /\ cfg \in {[Grafana |-> [Retries |-> 1],
                 DataSources |-> <<DataSourceConfig("m", "d1")>>,
                 Folders |-> fs,
                 Dashboards |-> <<[Name |-> "dash", Folder |-> f, File |-> "plain.json",
                                   DataSource |-> "m", ImportVar |-> "DS_A",
                                   Imports |-> <<>>]>>] :
                   fs \in SeqsUpTo({[Name |-> t] : t \in MappedTitles}, MaxFolderList),
                   f \in MappedTitles \cup {"general"}}
    /\ grafana \in {WithFolders(EmptyGrafana, titles) : titles \in {<<>>, <<"Logs">>}}
    /\ run = InitRun
    /\ hist = InitHist
    /\ peer = NoPeer

SpecMapping == InitMapping /\ [][NextDash]_vars

\* the configured folder names
ConfiguredFolders == {cfg.Folders[k].Name : k \in 1..Len(cfg.Folders)}

\* C36: once the Folders stage has succeeded, every configured folder name is
\* a key of the mapping, its entry holding the id and uid of a folder of that
\* title on the server; a dashboard whose folder is a configured name gets a
\* folder UID without error, the one of the entry unless the name is General
\* in some letter case, and the run does not fail with the folder validation
\* error for it.
C36_MappingComplete ==
    DashboardsEntered =>
        /\ \A f \in ConfiguredFolders :
              /\ f \in DOMAIN run.FoldersMapping
              /\ run.FoldersMapping[f].Title = f
              /\ \E folder \in Range(grafana.folders) :
                    /\ folder.title = f
                    /\ folder.uid = run.FoldersMapping[f].UID
                    /\ folder.id = run.FoldersMapping[f].ID
        /\ \A d \in 1..Len(cfg.Dashboards) :
              cfg.Dashboards[d].Folder \in ConfiguredFolders =>
                  LET folder == getDashboardFolderUID(run.FoldersMapping, cfg.Dashboards[d]) IN
                  /\ folder.ok
                  /\ ~ EqualFold(cfg.Dashboards[d].Folder, General) =>
                        folder.uid = run.FoldersMapping[cfg.Dashboards[d].Folder].UID
                  /\ run.err.cause # "dashboard folder validation failed: "
                                        \o cfg.Dashboards[d].Folder

\* two folders are configured and mapped, and the import request of a
\* dashboard of the second one carries its UID
C36_Witness ==
    /\ run.pc = "ImportDashboard"
    /\ Len(cfg.Folders) = 2
    /\ cfg.Folders[1].Name = General
    /\ cfg.Folders[2].Name = "logs"
    /\ DOMAIN run.FoldersMapping = {General, "logs"}
    /\ Current.Folder = "logs"
    /\ run.body.folderUid = run.FoldersMapping["logs"].UID
    /\ run.FoldersMapping["logs"].UID # ""


----------------------------------------------------------------------------
(* The logger of main *)

\* C37: for a configuration that config.Load accepts, main does not end
\* before the call of RunProvisioning.
C37_LoggerBuilt ==
    (Load(hist.file) /\ run.pc # "main") => (run.pc # "Exited" /\ hist.exit # 2)


----------------------------------------------------------------------------
(* At least one attempt *)

\* C38: the readiness wait does not fail without a probe having been sent,
\* and a call of doRequest does not return an error without an attempt having
\* been sent.
C38_AtLeastOneAttempt ==
    /\ FailedAwaitingReady => "Health" \in hist.sent
    /\ (run.pc = "Returned" /\ hist.returned.kind = "err") => Len(hist.attempts) >= 1

============================================================================
